---- MODULE Spec2Model ----
(***************************************************************************)
(* A model of the opkit command line driver (main in the cli source):      *)
(* argument parsing, settings validation, package layout, user build,      *)
(* compile, packaging, code signing, notarization and run.                 *)
(*                                                                         *)
(* Text is a sequence of tokens: each token is a TLA+ string standing for  *)
(* a piece of text with no internal structure the program looks at.  A     *)
(* command line argument is spelled character by character, because the    *)
(* program searches it for substrings.  A path is a sequence of            *)
(* components, each a text; the root directory is the component <<"/">>.   *)
(***************************************************************************)
EXTENDS Integers, Sequences, FiniteSets, TLC

\* ------------------------------------------------------------------ bounds

\* at most this many flag arguments follow the project directory
MaxFlagArgs == 2
\* texts handed to the extraction and classification functions on their own
MaxTextLen == 5
\* at most this many payload files lie in the Windows package directory
MaxFiles == 2

\* calls of window._ipc.send and of window._ipc.resolve followed
MaxSends == 2
MaxReplies == 3

\* ------------------------------------------------------ program constants

\* while (...) { if (++requests > 1024) ... }
MaxRequests == 1024

Platforms == {"mac", "linux", "win"}

\* std::vector<std::string> required
Required == <<"name", "title", "executable", "output", "version", "arch">>

\* ------------------------------------------------------------- text tools

NL == "\n"

RECURSIVE Find(_, _, _)
\* std::string::find(pat) from position i on: the first index at which pat
\* occurs in s, 0 when it does not occur (npos)
Find(s, pat, i) ==
  IF i + Len(pat) - 1 > Len(s) THEN 0
  ELSE IF SubSeq(s, i, i + Len(pat) - 1) = pat THEN i
  ELSE Find(s, pat, i + 1)

\* std::string(arg).find(pat) != -1
Contains(s, pat) == Find(s, pat, 1) # 0

RECURSIVE SkipSpaces(_, _)
\* the greedy " *" of a pattern: the first index from i on that holds no space
SkipSpaces(s, i) ==
  IF i <= Len(s) /\ s[i] = " " THEN SkipSpaces(s, i + 1) ELSE i

RECURSIVE LineEnd(_, _)
\* the first index from i on that holds a newline, Len(s) + 1 when none does
LineEnd(s, i) ==
  IF i > Len(s) THEN i
  ELSE IF s[i] = NL THEN i
  ELSE LineEnd(s, i + 1)

\* one attempt of the pattern  \n *LIT(.+?)\n  (spaces only when sp) starting
\* at index i: the captured group, <<>> when the attempt fails
MatchAt(s, i, lit, sp) ==
  IF i > Len(s) \/ s[i] # NL THEN <<>>
  ELSE LET j == IF sp THEN SkipSpaces(s, i + 1) ELSE i + 1
           k == LineEnd(s, j + 1)
       IN  IF j <= Len(s) /\ s[j] = lit /\ k <= Len(s) /\ k > j + 1
           THEN SubSeq(s, j + 1, k - 1)
           ELSE <<>>

RECURSIVE RegexSearch(_, _, _, _)
\* std::regex_search: the capture of the leftmost successful attempt, <<>>
\* when no attempt succeeds (the target string is then left empty)
RegexSearch(s, i, lit, sp) ==
  IF i > Len(s) THEN <<>>
  ELSE IF MatchAt(s, i, lit, sp) # <<>> THEN MatchAt(s, i, lit, sp)
  ELSE RegexSearch(s, i + 1, lit, sp)

\* ExtractUuid with a pattern that lets spaces stand before the name
ExtractUuidIndented(output) == RegexSearch(output, 1, "RequestUUID = ", TRUE)

\* std::regex re(R"(\nRequestUUID = (.+?)\n)"); uuid = match.str(1)
ExtractUuid(output) == RegexSearch(output, 1, "RequestUUID = ", FALSE)

\* a status pattern that allows no spaces before "Status: "
ExtractStatusUnindented(output) == RegexSearch(output, 1, "Status: ", FALSE)

\* std::regex re(R"(\n *Status: (.+?)\n)"); status = match.str(1)
ExtractStatus(output) == RegexSearch(output, 1, "Status: ", TRUE)

\* Classify with the last check turned round: a phrase none of the words is
\* found in keeps the loop going
ClassifyUnmatchedPolls(status) ==
  IF Contains(status, <<"in progress">>) THEN "Polling"
  ELSE IF Contains(status, <<"invalid">>) THEN "Rejected"
  ELSE IF Contains(status, <<"success">>) THEN "Success"
  ELSE "Polling"

\* the chain of checks on the status phrase in the poll loop
Classify(status) ==
  IF Contains(status, <<"in progress">>) THEN "Polling"
  ELSE IF Contains(status, <<"invalid">>) THEN "Rejected"
  ELSE IF Contains(status, <<"success">>) THEN "Success"
  ELSE "Failure"

\* --------------------------------------------------------------- path tools

RECURSIVE SplitPath(_, _, _, _)
\* fs::path(text): the components between the separators; a leading
\* separator gives the root directory as first component
SplitPath(t, i, cur, acc) ==
  IF i > Len(t) THEN (IF cur = <<>> THEN acc ELSE Append(acc, cur))
  ELSE IF t[i] = "/"
       THEN SplitPath(t, i + 1, <<>>,
                      IF i = 1 THEN <<(<<"/">>)>>
                      ELSE IF cur = <<>> THEN acc ELSE Append(acc, cur))
       ELSE SplitPath(t, i + 1, Append(cur, t[i]), acc)

ToPath(t) == SplitPath(t, 1, <<>>, <<>>)

IsAbsolute(p) == p # <<>> /\ p[1] = <<"/">>

\* fs::path operator/ : an absolute right operand replaces the left one
Join(p, q) == IF IsAbsolute(q) THEN q ELSE p \o q

RECURSIVE PathToString(_)
\* pathToString(path): the text of a path, its components set apart by the
\* separator, the root directory written as the separator alone
PathToString(p) ==
  IF p = <<>> THEN <<>>
  ELSE IF Len(p) = 1 THEN p[1]
  ELSE IF p[1] = <<"/">> THEN <<"/">> \o PathToString(Tail(p))
  ELSE p[1] \o <<"/">> \o PathToString(Tail(p))

RECURSIVE Normal(_)
\* the directory a path names: "." components dropped
Normal(p) ==
  IF p = <<>> THEN <<>>
  ELSE IF Head(p) = <<".">> THEN Normal(Tail(p))
  ELSE <<Head(p)>> \o Normal(Tail(p))

\* the absolute location a path names when the working directory is dir
Resolve(dir, p) == Normal(Join(dir, p))

\* q is p or lies below p
IsPrefix(p, q) == Len(p) <= Len(q) /\ SubSeq(q, 1, Len(p)) = p

\* ------------------------------------------------------------ settings map

\* std::map::count(key)
Count(s, key) == IF key \in DOMAIN s THEN 1 ELSE 0

\* the value std::map::operator[] returns: the empty string for a new key
Get(s, key) == IF key \in DOMAIN s THEN s[key] ELSE <<>>

\* the map after std::map::operator[] was used on key: a new key is inserted
Touch(s, key) == IF key \in DOMAIN s THEN s ELSE s @@ (key :> <<>>)

RECURSIVE TouchAll(_, _)
TouchAll(s, keys) ==
  IF keys = <<>> THEN s ELSE TouchAll(Touch(s, Head(keys)), Tail(keys))

\* settings[key] = value
Put(s, key, value) == [k \in DOMAIN s \cup {key} |-> IF k = key THEN value ELSE s[k]]

\* ----------------------------------------------------------------- inputs

\* argv[0]
ProgramName == <<"o", "p", "k", "i", "t">>

\* argv[1], the project directory
Targets == { <<"a", "p", "p">>, <<".">> }

FlagOrder ==
  << <<"-", "c">>, <<"-", "h">>, <<"-", "m", "e">>, <<"-", "m", "n">>,
     <<"-", "o">>, <<"-", "p">>, <<"-", "r">>, <<"-", "s">>, <<"-", "x", "d">> >>

FlagIndexSets == { S \in SUBSET (1..Len(FlagOrder)) : Cardinality(S) <= MaxFlagArgs }

RECURSIVE Pick(_, _)
\* the flag arguments with index in S, in the order of FlagOrder
Pick(S, i) ==
  IF i > Len(FlagOrder) THEN <<>>
  ELSE (IF i \in S THEN <<FlagOrder[i]>> ELSE <<>>) \o Pick(S, i + 1)

\* the command lines considered: the bare program name, and the program name
\* followed by a project directory and some flags
ArgvPool ==
  { <<ProgramName>> } \cup
  { <<ProgramName, t>> \o Pick(S, 1) : t \in Targets, S \in FlagIndexSets }

\* the value every key has when it is present in settings.config
ValueOf ==
  [ name |-> <<"foo">>, title |-> <<"Foo">>, executable |-> <<"foo">>,
    output |-> <<"dist">>, version |-> <<"1.0">>, arch |-> <<"amd64">>,
    revision |-> <<"1">>, build |-> <<"make">>,
    _cmd |-> <<"true">>, mac_cmd |-> <<"true">>, linux_cmd |-> <<"true">>,
    win_cmd |-> <<"true">>,
    mac_sign |-> <<"ACME">>,
    mac_sign_paths |-> <<"a.dylib", ";", "b.dylib">>,
    flags |-> <<"-O2">>, debug_flags |-> <<"-g">>,
    linux_icon |-> <<"icon.png">>, mac_entitlements |-> <<"ent.src">> ]

RequiredSet == { Required[i] : i \in 1..Len(Required) }

PlatformCmdKeys == {"win_cmd", "mac_cmd", "linux_cmd"}

\* the key sets of the settings files considered: the ones that lack a build
\* command key or a required key, two that have them, and one with name,
\* executable, output, version, arch, revision and linux_cmd only
KeySets ==
  LET cmds == { {}, {"_cmd"}, PlatformCmdKeys, {"linux_cmd"} }
      reqs == { RequiredSet } \cup { RequiredSet \ {k} : k \in RequiredSet }
  IN  { c \cup r : c \in cmds, r \in reqs }
      \cup { {"_cmd", "build", "revision", "mac_sign", "mac_sign_paths",
               "flags", "debug_flags", "linux_icon", "mac_entitlements"}
               \cup PlatformCmdKeys \cup RequiredSet }
      \cup { (RequiredSet \ {"title"}) \cup {"revision", "linux_cmd"} }

\* parseConfig(readFile(target / "settings.config")) for each settings file
SettingsPool == { [k \in K |-> ValueOf[k]] : K \in KeySets }

\* the working directory the program is started in
StartDir == << <<"/">>, <<"work">> >>

\* ------------------------------------------------------------------- state

VARIABLES
  pc,         \* the place of control in main
  exitCode,   \* the exit status of the process, -1 while it runs
  exitAt,     \* which exit or return ended the process
  platform,   \* the host: exactly one of platform.mac, .linux, .win
  argv,       \* the command line
  flags,      \* the flag booleans of main
  settings,   \* the settings map
  binary,     \* the file at the binary path: "absent", "stale" or "fresh"
  cwd,        \* the working directory of the process
  paths,      \* the path variables of main
  manifests,  \* per manifest written, the settings it was rendered from
  uuid,       \* the request identifier of the notarization
  requests,   \* the poll counter
  notary,     \* where the notarization stands
  calls,      \* per external tool, how often it was invoked
  issued,     \* per external tool, the command it was last invoked with
  results,    \* per external tool, the exit code it last ended with, -1 if none
  fsLog,      \* the file system changes made, as <<operation, path>>
  log,        \* the lines logged, as <<kind, detail>>
  cin,        \* a text given to the text functions on their own
  cout,       \* what they made of it
  appx,       \* the Windows packaging: what happened to its steps
  signing,    \* the macOS code signing: the code each codesign ended with
  icon,       \* the file at the Linux icon destination: "absent" or "present"
  link,       \* the symbolic link of the Linux packaging: "absent" or "present"
  plist,      \* the place the entitlements are copied to: "nodir" when its
              \* directory is missing, else "absent" or "present"
  tree,       \* the regular files found under the package root, as paths
              \* relative to it, where a run enumerates them
  ipc,        \* window._ipc of the preload script: the bridge in the webview
  cxx,        \* the CXX variable of the environment, "" when it is not set
  running     \* the external tools whose process was started and has not
              \* ended yet

vars == << pc, exitCode, exitAt, platform, argv, flags, settings, binary, cwd,
           paths, manifests, uuid, requests, notary, calls, issued, results, running,
           fsLog, log, cin, cout, appx, signing, icon, link, plist, tree, ipc,
           cxx, running >>

Tools == { "userbuild", "compile", "dpkg-deb", "codesign", "ditto",
           "altool-submit", "altool-info", "altool-history", "signtool",
           "tee", "runner", "sleep" }

\* exit codes an external command may end with
ExitCodes == {0, 1, 2}

NoFlags ==
  [ RunUserBuild |-> FALSE, AppStore |-> FALSE, CodeSign |-> FALSE,
    ShouldRun |-> FALSE, Entitlements |-> FALSE, ShouldNotarize |-> FALSE,
    DebugMode |-> TRUE, ShouldPackage |-> FALSE ]

NoPaths ==
  [ pathOutput |-> <<>>, executable |-> <<>>, packageName |-> <<>>,
    pathPackage |-> <<>>, pathBin |-> <<>>, pathResources |-> <<>>,
    pathResourcesRelativeToUserBuild |-> <<>>, pathToArchive |-> <<>>,
    binaryPath |-> <<>> ]

\* no text function has been applied yet
NoOutcome == [ verdict |-> "none", continues |-> FALSE, exits |-> FALSE ]

NoManifests == [m \in {} |-> <<>>]

\* the macOS code signing was not entered
NoSigning == [ done |-> FALSE, codes |-> <<>> ]

\* no Windows packaging was done
NoAppx == [ done |-> FALSE ]

\* the files under the package root are not enumerated
NoTree == {}

\* const IPC = window._ipc = { nextSeq: 1, streams: {} } : no request is
\* pending, no promise was made, no call of resolve is suspended
IpcInit ==
  [ nextSeq  |-> 1,
    obj      |-> {},          \* the keys window._ipc holds a request under
    promise  |-> [k \in {} |-> "pending"],  \* the state of each promise made
    settles  |-> [k \in {} |-> 0],          \* how often its state changed
    awaiting |-> <<>>,        \* calls of resolve suspended at their await
    issuedSeqs |-> <<>>,      \* the sequence numbers send gave out
    invoked  |-> {},          \* the keys handed to window.external.invoke
    replies  |-> 0,           \* the calls of resolve so far
    last     |-> [ op |-> "none", key |-> "", outcome |-> "" ] ]

\* the state of main's variables before its first statement
Fresh ==
  /\ pc = "start"
  /\ exitCode = -1
  /\ exitAt = "none"
  /\ flags = NoFlags
  /\ cwd = StartDir
  /\ paths = NoPaths
  /\ manifests = NoManifests
  /\ uuid = <<>>
  /\ requests = 0
  /\ notary = "NotSubmitted"
  /\ calls = [t \in Tools |-> 0]
  /\ issued = [t \in Tools |-> <<>>]
  /\ results = [t \in Tools |-> -1]
  /\ running = {}
  /\ fsLog = {}
  /\ log = {}
  /\ appx = NoAppx
  /\ signing = NoSigning
  /\ ipc = IpcInit

\* what an earlier run may have left of the Linux packaging: the link is
\* there only where that run got as far as making it
EarlierLinks(plat, bin, ic) ==
  IF plat = "linux" /\ bin # "absent" /\ ic = "present"
  THEN {"absent", "present"} ELSE {"absent"}

\* what the run may find where the entitlements go, varied in the macOS
\* runs that ask for them; a copy of an earlier run is there only where
\* that run got as far as making it
EarlierPlists(plat, args, bin) ==
  IF plat = "mac" /\ \E i \in 1..Len(args) : args[i] = <<"-", "m", "e">>
  THEN {"nodir", "absent"} \cup (IF bin # "absent" THEN {"present"} ELSE {})
  ELSE {"nodir"}

\* a compiler the user names in CXX
UserCxx == "c++"

\* the values CXX has when main starts
CxxPool == { "", UserCxx }

\* CXX at the start of the run: left unset in the runs of one flag at most
\* that do not ask for the notarization
StartCxx(args) ==
  IF Len(args) <= 3 /\ \A i \in 1..Len(args) : args[i] # <<"-", "m", "n">>
  THEN CxxPool ELSE { UserCxx }

Init ==
  /\ Fresh
  /\ platform \in Platforms
  /\ argv \in ArgvPool
  /\ settings \in SettingsPool
  /\ binary \in {"absent", "stale", "fresh"}
  /\ icon \in (IF platform = "linux" THEN {"absent", "present"} ELSE {"absent"})
  /\ link \in EarlierLinks(platform, binary, icon)
  /\ plist \in EarlierPlists(platform, argv, binary)
  /\ cxx \in StartCxx(argv)
  /\ tree = NoTree
  /\ cin = <<>>
  /\ cout = NoOutcome

\* ExitStatus of a program that ends every failure with exit(1)
ExitStatusAlwaysOne(code) == IF code = 0 THEN 0 ELSE 1

\* the exit status the host sees after exit(code)
ExitStatus(code) == code % 256

\* exit(code), or return code from main
Exit(code, at) ==
  /\ pc' = "exited"
  /\ exitCode' = ExitStatus(code)
  /\ exitAt' = at

Goto(label) ==
  /\ pc' = label
  /\ UNCHANGED <<exitCode, exitAt>>

Log(lines) == log' = log \cup lines

\* exec(cmd) and std::system(cmd) return with the exit status of the
\* command, so with its processes ended: of the tools started none is
\* running when main goes on
Waited(tools) == running' = running \ tools

\* an invocation that starts the command and goes on without waiting for
\* its end
CallDetached(tool, cmd, code) ==
  /\ calls' = [calls EXCEPT ![tool] = @ + 1]
  /\ issued' = [issued EXCEPT ![tool] = cmd]
  /\ results' = [results EXCEPT ![tool] = code]
  /\ running' = running \cup {tool}

\* one invocation of an external tool with the command cmd, ending with code
Call(tool, cmd, code) ==
  /\ calls' = [calls EXCEPT ![tool] = @ + 1]
  /\ issued' = [issued EXCEPT ![tool] = cmd]
  /\ results' = [results EXCEPT ![tool] = code]
  /\ Waited({tool})

\* ------------------------------------------------------------ flag parsing

\* some argument of the command line holds pat
AnyArg(args, pat) == \E i \in 1..Len(args) : Contains(args[i], pat)

\* the loop over std::span(argv, argc)
ParseFlags(args) ==
  [ RunUserBuild   |-> AnyArg(args, <<"-", "o">>),
    AppStore       |-> AnyArg(args, <<"-", "s">>),
    CodeSign       |-> AnyArg(args, <<"-", "c">>),
    ShouldRun      |-> AnyArg(args, <<"-", "r">>),
    Entitlements   |-> AnyArg(args, <<"-", "m", "e">>),
    ShouldNotarize |-> AnyArg(args, <<"-", "m", "n">>),
    DebugMode      |-> ~AnyArg(args, <<"-", "x", "d">>),
    ShouldPackage  |-> AnyArg(args, <<"-", "p">>) ]

\* the first argument that holds -h, 0 when none does
FirstHelp(args) ==
  IF AnyArg(args, <<"-", "h">>)
  THEN CHOOSE i \in 1..Len(args) :
         /\ Contains(args[i], <<"-", "h">>)
         /\ \A j \in 1..(i - 1) : ~Contains(args[j], <<"-", "h">>)
  ELSE 0

\* the flags when the loop calls help(): the arguments before the one that
\* holds -h were taken whole, of that one only -c was tested
FlagsAtHelp(args) ==
  LET h == FirstHelp(args)
  IN  [ ParseFlags(SubSeq(args, 1, h - 1)) EXCEPT
          !.CodeSign = @ \/ Contains(args[h], <<"-", "c">>) ]

\* setEnv("CXX=clang++") on Windows, setEnv("CXX=/usr/bin/g++") elsewhere
DefaultCxx(plat) == IF plat = "win" THEN "clang++" ELSE "/usr/bin/g++"

\* main up to the end of the flag loop.  With no argument help() is called
\* before anything else; else CXX is given its default, with a warning, when
\* the environment does not set it, and the loop takes the arguments in
\* order, ending in help() at the first one that holds -h.  help() exits 0.
ParseArgs ==
  /\ pc = "start"
  /\ IF Len(argv) < 2
     THEN /\ Exit(0, "help")
          /\ UNCHANGED << flags, log, cxx >>
     ELSE /\ IF cxx = ""
             THEN /\ Log({<<"warning! $CXX env var not set, assuming defaults", "">>})
                  /\ cxx' = DefaultCxx(platform)
             ELSE UNCHANGED << log, cxx >>
          /\ IF AnyArg(argv, <<"-", "h">>)
             THEN /\ Exit(0, "help")
                  /\ flags' = FlagsAtHelp(argv)
             ELSE /\ Goto("validate")
                  /\ flags' = ParseFlags(argv)
  /\ UNCHANGED << platform, argv, settings, binary, cwd, paths, manifests,
                  uuid, requests, notary, calls, issued, results, running, fsLog, cin,
                  cout, appx, signing, icon, link, plist, tree, ipc >>

\* ------------------------------------------------------ settings validation

RECURSIVE FirstMissing(_, _)
\* the first key of keys that s lacks, "" when it has them all
FirstMissing(s, keys) ==
  IF keys = <<>> THEN ""
  ELSE IF Count(s, Head(keys)) = 0 THEN Head(keys)
  ELSE FirstMissing(s, Tail(keys))

\* if (settings.count("_cmd") == 0)
HasBuildCommand(s) == Count(s, "_cmd") # 0

\* the two checks of main on the settings map
Validate ==
  /\ pc = "validate"
  /\ IF ~HasBuildCommand(settings)
     THEN /\ Exit(1, "no_cmd")
          /\ Log({<<"required", "_cmd">>})
     ELSE IF FirstMissing(settings, Required) # ""
     THEN /\ Exit(1, "missing_key")
          /\ Log({<<"required", FirstMissing(settings, Required)>>})
     ELSE /\ Goto("debug")
          /\ UNCHANGED log
  /\ UNCHANGED << platform, argv, flags, settings, binary, cwd, paths,
                  manifests, uuid, requests, notary, calls, issued, results, running, fsLog, cin,
                  cout, appx, signing, icon, link, plist, tree, ipc, cxx >>

\* AppendDev applied a second time
AppendDevTwice(s) ==
  [k \in DOMAIN s |->
     IF k \in {"name", "title", "executable"}
     THEN s[k] \o <<"-dev", "-dev">> ELSE s[k]]

\* settings[key] += "-dev" for name, title and executable
AppendDev(s) ==
  [k \in DOMAIN s |->
     IF k \in {"name", "title", "executable"} THEN s[k] \o <<"-dev">> ELSE s[k]]

\* if (flagDebugMode) { ... }
DebugSuffix ==
  /\ pc = "debug"
  /\ settings' = IF flags.DebugMode THEN AppendDev(settings) ELSE settings
  /\ Goto("clean")
  /\ UNCHANGED << platform, argv, flags, binary, cwd, paths, manifests,
                  uuid, requests, notary, calls, issued, results, running, fsLog, log, cin, cout, appx, signing, icon, link, plist, tree, ipc, cxx >>

\* ---------------------------------------------------------- package layout

\* auto target = fs::path(argv[1])
Target(args) == ToPath(args[2])

\* fs::path(settings["executable"] + (platform.win ? ".exe" : ""))
Executable(plat, s) ==
  ToPath(Get(s, "executable") \o (IF plat = "win" THEN <<".exe">> ELSE <<>>))

\* packageName of the three package preparations
PackageName(plat, s) ==
  CASE plat = "mac"   -> ToPath(Get(s, "name") \o <<".app">>)
    [] plat = "linux" -> ToPath(Get(s, "executable") \o <<"_">> \o
                                Get(s, "version") \o <<"-">> \o
                                Get(s, "revision") \o <<"_">> \o Get(s, "arch"))
    [] plat = "win"   -> ToPath(Get(s, "executable") \o <<"-">> \o
                                Get(s, "version"))

\* pathPackage
PathPackage(plat, s, target, dir) ==
  LET rel == Join(Join(target, ToPath(Get(s, "output"))), PackageName(plat, s))
  IN  IF plat = "win" THEN Join(dir, rel) ELSE rel

\* pathBin
PathBin(plat, s, target, dir) ==
  CASE plat = "mac"   -> PathPackage(plat, s, target, dir)
                           \o << <<"Contents">>, <<"MacOS">> >>
    [] plat = "linux" -> Join(PathPackage(plat, s, target, dir) \o << <<"opt">> >>,
                              ToPath(Get(s, "name")))
    [] plat = "win"   -> PathPackage(plat, s, target, dir)

\* pathResources: left empty by the Windows preparation
PathResources(plat, s, target, dir) ==
  CASE plat = "mac"   -> PathPackage(plat, s, target, dir)
                           \o << <<"Contents">>, <<"Resources">> >>
    [] plat = "linux" -> PathBin(plat, s, target, dir)
    [] plat = "win"   -> <<>>

\* pathResourcesRelativeToUserBuild
PathResourcesRelativeToUserBuild(plat, s, target, dir) ==
  CASE plat = "mac"   -> Join(ToPath(Get(s, "output")), PackageName(plat, s))
                           \o << <<"Contents">>, <<"Resources">> >>
    [] plat = "linux" -> Join(Join(ToPath(Get(s, "output")), PackageName(plat, s))
                                \o << <<"opt">> >>,
                              ToPath(Get(s, "name")))
    [] plat = "win"   -> PathPackage(plat, s, target, dir)

\* fs::path binaryPath = { pathBin / executable }
BinaryPath(plat, s, target, dir) ==
  Join(PathBin(plat, s, target, dir), Executable(plat, s))

\* the path each manifest is handed to writeFile with
ManifestPath(plat, s, target, dir, m) ==
  LET pkg == PathPackage(plat, s, target, dir)
  IN  CASE m = "Info.plist" -> pkg \o << <<"Contents">>, <<"Info.plist">> >>
        [] m = "desktop" ->
             Join(pkg \o << <<"usr">>, <<"share">>, <<"applications">> >>,
                  ToPath(Get(s, "name") \o <<".desktop">>))
        [] m = "control" -> pkg \o << <<"DEBIAN">>, <<"control">> >>
        [] m = "AppxManifest.xml" ->
             PathResourcesRelativeToUserBuild(plat, s, target, dir)
               \o << <<"AppxManifest.xml">> >>

\* pathToIconDest: pathIcons / (settings["executable"] + ".png")
IconDest(s, target, dir) ==
  Join(PathPackage("linux", s, target, dir)
         \o << <<"usr">>, <<"share">>, <<"icons">>, <<"hicolor">>,
                <<"256x256">>, <<"apps">> >>,
       ToPath(Get(s, "executable") \o <<".png">>))

\* pathSymLinks: pathPackage / "usr" / "local" / "bin"
PathSymLinks(pkg) == pkg \o << <<"usr">>, <<"local">>, <<"bin">> >>

\* the link of the Linux packaging: pathSymLinks / settings["executable"]
LinkPath(pkg, s) == Join(PathSymLinks(pkg), ToPath(Get(s, "executable")))

\* entitlementsPath: pathResourcesRelativeToUserBuild / "entitlements.plist"
EntitlementsPath(resources) == resources \o << <<"entitlements.plist">> >>

\* auto pathOutput = fs::path { settings["output"] }; fs::remove_all(pathOutput)
\* unless "run previous build only" is set.  remove_all works from the
\* working directory: the binary and the icon go with it when they lie below.
CleanOutput ==
  /\ pc = "clean"
  /\ paths' = [paths EXCEPT !.pathOutput = ToPath(Get(settings, "output"))]
  /\ IF flags.RunUserBuild = FALSE
     THEN LET gone == Resolve(cwd, ToPath(Get(settings, "output")))
              s0   == Touch(settings, "revision")
              tgt  == Target(argv)
              \* the file at p goes with the directory removed
              Cleared(p) == IsPrefix(gone, Resolve(cwd, p))
          IN  /\ fsLog' = fsLog \cup { <<"remove_all", gone>> }
              /\ binary' = IF Cleared(BinaryPath(platform, s0, tgt, cwd))
                            THEN "absent" ELSE binary
              /\ icon' = IF Cleared(IconDest(s0, tgt, cwd)) THEN "absent" ELSE icon
              /\ link' = IF Cleared(LinkPath(PathPackage(platform, s0, tgt, cwd), s0))
                          THEN "absent" ELSE link
              /\ plist' = IF platform = "mac" /\
                              Cleared(PathResourcesRelativeToUserBuild(platform, s0, tgt, cwd))
                           THEN "nodir" ELSE plist
              /\ Log({<<"cleaned", "output">>})
     ELSE UNCHANGED << fsLog, binary, icon, link, plist, log >>
  /\ Goto("prepare")
  /\ UNCHANGED << platform, argv, flags, settings, cwd, manifests, uuid,
                  requests, notary, calls, issued, results, running, cin, cout, appx, signing,
                  tree, ipc, cxx >>

\* fs::path("/opt") / settings["name"] / settings["executable"]
LinuxExecPath(s) ==
  Join(Join(<< <<"/">>, <<"opt">> >>, ToPath(Get(s, "name"))),
       ToPath(Get(s, "executable")))

\* fs::path("/usr") / "share" / "icons" / "hicolor" / "256x256" / "apps" /
\* (settings["executable"] + ".png")
LinuxIconPath(s) ==
  Join(<< <<"/">>, <<"usr">>, <<"share">>, <<"icons">>, <<"hicolor">>,
          <<"256x256">>, <<"apps">> >>,
       ToPath(Get(s, "executable") \o <<".png">>))

\* a preparation that derives no key and defaults nothing
RenderedSettingsUnderived(plat, s) == s

\* the settings map at the calls of tmpl: the keys the package preparation
\* has read with operator[] or written by then
RenderedSettings(plat, s) ==
  CASE plat = "mac" -> s
    [] plat = "linux" ->
         LET t == Touch(s, "revision")
         IN  Put(Put(t, "linux_executable_path", PathToString(LinuxExecPath(t))),
                 "linux_icon_path", PathToString(LinuxIconPath(t)))
    [] plat = "win" ->
         IF Get(s, "revision") = <<>> THEN Put(s, "revision", <<"1">>) ELSE s

\* the settings map at the end of the package preparation: on Linux
\* settings["linux_icon"] is read after the manifests were rendered
PreparedSettings(plat, s) ==
  IF plat = "linux" THEN Touch(RenderedSettings(plat, s), "linux_icon")
  ELSE RenderedSettings(plat, s)

\* the settings each manifest is rendered from
ManifestsOf(plat, s) ==
  CASE plat = "mac"   -> [m \in {"Info.plist"} |-> s]
    [] plat = "linux" -> [m \in {"desktop", "control"} |-> s]
    [] plat = "win"   -> [m \in {"AppxManifest.xml"} |-> s]

\* the directories fs::create_directories is called on
CreatedDirs(plat, s, target, dir) ==
  LET pkg == PathPackage(plat, s, target, dir)
  IN  CASE plat = "mac" ->
             { PathBin(plat, s, target, dir), PathResources(plat, s, target, dir) }
        [] plat = "linux" ->
             { pkg \o << <<"usr">>, <<"share">>, <<"icons">>, <<"hicolor">>,
                        <<"256x256">>, <<"apps">> >>,
               PathResources(plat, s, target, dir),
               pkg \o << <<"usr">>, <<"share">>, <<"applications">> >>,
               pkg \o << <<"DEBIAN">> >> }
        [] plat = "win" -> { pkg }

\* the keys a manifest template may hold a placeholder for: keys that every
\* validated settings file has, with or without one it need not have
TemplateKeySets ==
  { {"name", "title", "executable", "version"},
    {"name", "title", "executable", "version", "description"} }

\* tmpl(template, settings), by what it leaves behind: the placeholders of
\* keys the settings do not hold stay in the text, and nothing is reported
Tmpl(refs, s) == refs \ DOMAIN s

\* the status a shell reports for a process ended by SIGABRT, the end
\* std::terminate gives a process whose exception nothing catches
AbortStatus == 134

\* the status a shell reports for a process ended by SIGSEGV
FaultStatus == 139

\* the end of a process by a signal: no exit handler runs, the status is
\* not passed through exit()
Killed(status, at) ==
  /\ pc' = "exited"
  /\ exitCode' = status
  /\ exitAt' = at

\* IconCopyNeeded of a program that copies the icon on every run
IconCopyAlways(destExists) == TRUE

\* if (!fs::exists(pathToIconDest))
IconCopyNeeded(destExists) == ~destExists

\* fs::copy(from, to) with no options throws a filesystem_error when from
\* is not there or to is there already; main catches nothing
CopyThrows(srcExists, destExists) == ~srcExists \/ destExists

\* the first part of the three "Package Prep" blocks, of which the host's
\* one runs: the paths of the layout are resolved and its directories made.
\* A directory made where the binary or the link of the Linux packaging
\* goes is what a later fs::exists finds there.
ResolveLayout ==
  /\ pc = "prepare"
  /\ LET s0  == IF platform = "linux" THEN Touch(settings, "revision") ELSE settings
         tgt == Target(argv)
         made == { Resolve(cwd, d) : d \in CreatedDirs(platform, s0, tgt, cwd) }
         \* create_directories made a directory at p, or one below it
         DirAt(p) == \E d \in made : IsPrefix(Resolve(cwd, p), d)
     IN  /\ settings' = s0
         /\ binary' = IF binary = "absent" /\ DirAt(BinaryPath(platform, s0, tgt, cwd))
                       THEN "stale" ELSE binary
         /\ link' = IF platform = "linux" /\
                        DirAt(LinkPath(PathPackage(platform, s0, tgt, cwd), s0))
                     THEN "present" ELSE link
         /\ paths' =
              [ paths EXCEPT
                  !.executable = Executable(platform, settings),
                  !.packageName = PackageName(platform, s0),
                  !.pathPackage = PathPackage(platform, s0, tgt, cwd),
                  !.pathBin = PathBin(platform, s0, tgt, cwd),
                  !.pathResources = PathResources(platform, s0, tgt, cwd),
                  !.pathResourcesRelativeToUserBuild =
                      PathResourcesRelativeToUserBuild(platform, s0, tgt, cwd) ]
         /\ plist' = IF /\ platform = "mac"
                         /\ plist = "nodir"
                         /\ Resolve(cwd, PathResourcesRelativeToUserBuild(platform, s0, tgt, cwd))
                              \in made
                      THEN "absent" ELSE plist
         /\ fsLog' = fsLog \cup { <<"create_directories", d>> : d \in made }
  /\ Log({<<"preparing build for", platform>>})
  /\ Goto("manifests")
  /\ UNCHANGED << platform, argv, flags, cwd, manifests, uuid, requests, notary,
                  calls, issued, results, running, cin, cout, appx, signing,
                  icon, tree, ipc, cxx >>

\* the rest of the host's "Package Prep" block and the log line after the
\* three: each manifest goes from tmpl straight to writeFile.  On Linux the
\* icon is copied from target / settings["linux_icon"], which is the project
\* directory itself when the settings name no icon.
RenderManifests ==
  /\ pc = "manifests"
  /\ LET sR  == RenderedSettings(platform, settings)
         s1  == PreparedSettings(platform, settings)
         tgt == Target(argv)
     IN  /\ settings' = s1
         /\ manifests' = ManifestsOf(platform, sR)
         /\ \E srcThere \in BOOLEAN, refs \in TemplateKeySets :
              LET copies == platform = "linux" /\ IconCopyNeeded(icon = "present")
                  thrown == copies /\ CopyThrows(srcThere, icon = "present")
              IN  /\ ((~copies \/ Get(s1, "linux_icon") = <<>>) => srcThere)
                  /\ fsLog' = fsLog
                       \cup { <<"writeFile",
                                Resolve(cwd, ManifestPath(platform, settings, tgt, cwd, m)),
                                Tmpl(refs, ManifestsOf(platform, sR)[m])>> :
                                m \in DOMAIN ManifestsOf(platform, sR) }
                       \cup (IF copies /\ ~thrown
                             THEN { <<"copy", Resolve(cwd, IconDest(settings, tgt, cwd))>> }
                             ELSE {})
                  /\ icon' = IF copies /\ ~thrown THEN "present" ELSE icon
                  /\ IF thrown
                     THEN /\ Killed(AbortStatus, "icon")
                          /\ UNCHANGED log
                     ELSE /\ Goto("userbuild")
                          /\ Log({<<"package prepared", platform>>})
  /\ UNCHANGED << platform, argv, flags, binary, cwd, paths, uuid, requests,
                  notary, calls, issued, results, running, cin, cout, appx,
                  signing, link, plist, tree, ipc, cxx >>

\* ----------------------------------------------------- user build, compile

\* buildCommand: settings["build"], the resources path, " --debug=" flag
BuildCommand(s, p, fl) ==
  [ cmd |-> Get(s, "build"),
    arg |-> p.pathResourcesRelativeToUserBuild,
    debug |-> IF fl.DebugMode THEN 1 ELSE 0 ]

\* cd into the target, run the user's build command, cd back
UserBuild ==
  /\ pc = "userbuild"
  /\ settings' = Touch(settings, "build")
  /\ \E code \in ExitCodes :
       /\ Call("userbuild", BuildCommand(settings, paths, flags), code)
       /\ IF code # 0
          THEN /\ Log({<<"build command", "">>,
                       <<"Unable to run user build command", "">>})
               /\ Exit(code, "userbuild")
               /\ cwd' = Join(cwd, Target(argv))
          ELSE /\ Log({<<"build command", "">>, <<"output", "userbuild">>,
                       <<"ran user build command", "">>})
               /\ Goto("compile")
               /\ cwd' = cwd
  /\ UNCHANGED << platform, argv, flags, binary, paths, manifests, uuid,
                  requests, notary, fsLog, cin, cout, appx, signing, icon, link, plist, tree, ipc, cxx >>

\* ShouldCompile of a program that never compiles in "run previous build only"
ShouldCompileFlagOnly(runUserBuild, binExists) == runUserBuild = FALSE

\* if (flagRunUserBuild == false || !binExists)
ShouldCompile(runUserBuild, binExists) == runUserBuild = FALSE \/ ~binExists

\* a compile command that is the debug one whatever the mode
CompileCommandAlwaysDebug(s, p, fl) ==
  [ compiler |-> cxx, extraFlags |-> Get(s, "debug_flags"),
    out |-> p.binaryPath, debug |-> 1 ]

\* compileCommand: the compiler is getEnv("CXX")
CompileCommand(s, p, fl) ==
  [ compiler |-> cxx,
    extraFlags |-> IF fl.DebugMode THEN Get(s, "debug_flags") ELSE Get(s, "flags"),
    out |-> p.binaryPath,
    debug |-> IF fl.DebugMode THEN 1 ELSE 0 ]

\* the compile step
Compile ==
  /\ pc = "compile"
  /\ LET p1 == [paths EXCEPT !.binaryPath = Join(paths.pathBin, paths.executable)]
         s1 == Touch(settings, IF flags.DebugMode THEN "debug_flags" ELSE "flags")
         \* the compiler's output is what lies at the place of the link
         linked == IF platform = "linux" /\
                      Resolve(cwd, p1.binaryPath) =
                        Resolve(cwd, LinkPath(paths.pathPackage, s1))
                   THEN "present" ELSE link
     IN  /\ paths' = p1
         /\ settings' = s1
         /\ IF ShouldCompile(flags.RunUserBuild, binary # "absent")
            THEN \E code \in ExitCodes :
                   /\ Call("compile", CompileCommand(s1, p1, flags), code)
                   /\ IF code # 0
                      THEN /\ Log({<<"Unable to build", "">>})
                           /\ Exit(code, "compile")
                           /\ UNCHANGED << binary, link >>
                      ELSE /\ Log({<<"compiled native binary", "">>})
                           /\ Goto("linux_package")
                           /\ binary' = "fresh"
                           /\ link' = linked
            ELSE /\ Goto("linux_package")
                 /\ UNCHANGED << calls, issued, results, running, log, binary, link >>
  /\ UNCHANGED << platform, argv, flags, cwd, manifests, uuid, requests,
                  notary, fsLog, cin, cout, appx, signing, icon, plist, tree, ipc, cxx >>

\* ------------------------------------------------- packaging and signing

\* fs::create_symlink(to, link) throws a filesystem_error when something
\* is at link already; main catches nothing
SymlinkThrows(linkExists) == linkExists

\* if (flagShouldPackage && platform.linux): symlink, then dpkg-deb through
\* std::system; any nonzero result exits 1
LinuxPackaging ==
  /\ pc = "linux_package"
  /\ IF flags.ShouldPackage /\ platform = "linux"
     THEN LET dirs == <<"create_directories",
                        Resolve(cwd, PathSymLinks(paths.pathPackage))>>
              made == <<"create_symlink",
                        Resolve(cwd, LinkPath(paths.pathPackage, settings))>>
          IN  IF SymlinkThrows(link = "present")
              THEN /\ fsLog' = fsLog \cup { dirs }
                   /\ Killed(AbortStatus, "symlink")
                   /\ UNCHANGED << link, calls, issued, results, running, log >>
              ELSE /\ fsLog' = fsLog \cup { dirs, made }
                   /\ link' = "present"
                   /\ \E r \in ExitCodes :
                        /\ Call("dpkg-deb",
                                [ root |-> paths.pathPackage,
                                  into |-> Join(Target(argv), paths.pathOutput) ], r)
                        /\ IF r # 0
                           THEN /\ Log({<<"error: failed to create deb package", "">>})
                                /\ Exit(1, "dpkg-deb")
                           ELSE /\ Goto("mac_sign")
                                /\ UNCHANGED log
     ELSE /\ Goto("mac_sign")
          /\ UNCHANGED << fsLog, link, calls, issued, results, running, log >>
  /\ UNCHANGED << platform, argv, flags, settings, binary, cwd, paths,
                  manifests, uuid, requests, notary, cin, cout, appx, signing, icon,
                  plist, tree, ipc, cxx >>

RECURSIVE Split(_, _, _, _)
\* split(text, ';'): the pieces of a text between the separators
Split(t, i, cur, acc) ==
  IF i > Len(t) THEN (IF cur = <<>> THEN acc ELSE Append(acc, cur))
  ELSE IF t[i] = ";"
       THEN Split(t, i + 1, <<>>, IF cur = <<>> THEN acc ELSE Append(acc, cur))
       ELSE Split(t, i + 1, Append(cur, t[i]), acc)

\* the auxiliary paths of mac_sign_paths
SignPaths(s) == Split(Get(s, "mac_sign_paths"), 1, <<>>, <<>>)

\* what the codesign commands of signCommand name, in the order they stand
\* in it: pathResources / paths[i], then pathBin / executable, then pathPackage
SignTargets(s, p) ==
  [ i \in 1..Len(SignPaths(s)) |-> Join(p.pathResources, ToPath(SignPaths(s)[i])) ]
    \o << Join(p.pathBin, p.executable), p.pathPackage >>

\* signCommand begins with the "; codesign" of the binary when
\* mac_sign_paths is empty
LeadingSeparator(s) == Len(Get(s, "mac_sign_paths")) = 0

\* the status the shell ends a command that begins with ";" with
SyntaxErrorStatus == 2

\* the codes one codesign invocation ends with
SignCodes == {0, 1}

\* the exit code of exec(signCommand): the commands are joined by ";", so
\* the shell runs every one of them and ends with the status of the last;
\* a command that begins with ";" is a syntax error and runs nothing
ShellStatus(broken, codes) ==
  IF broken THEN SyntaxErrorStatus ELSE codes[Len(codes)]

\* fs::copy(target / settings["mac_entitlements"], entitlementsPath): a
\* filesystem_error is thrown when the directory of the destination is
\* missing, when the source is not there, or when the destination is there
\* already.  With no mac_entitlements in the settings the source is the
\* project directory, which is there.
EntitlementsCopyThrows(srcExists, dest) ==
  dest = "nodir" \/ CopyThrows(srcExists, dest = "present")

\* if (flagCodeSign && platform.mac): the entitlements are copied, then
\* one composite command goes through exec
MacCodeSign ==
  /\ pc = "mac_sign"
  /\ IF flags.CodeSign /\ platform = "mac"
     THEN \E srcThere \in BOOLEAN :
          LET s0 == IF flags.Entitlements THEN Touch(settings, "mac_entitlements")
                    ELSE settings
              s1 == TouchAll(s0, <<"mac_sign_paths", "mac_sign">>)
              targets == SignTargets(s1, paths)
              broken  == LeadingSeparator(s1)
              thrown  == flags.Entitlements /\ EntitlementsCopyThrows(srcThere, plist)
          IN  /\ ((~flags.Entitlements \/ Get(s0, "mac_entitlements") = <<>>) => srcThere)
              /\ IF thrown
                 THEN /\ settings' = s0
                      /\ Killed(AbortStatus, "entitlements")
                      /\ UNCHANGED << fsLog, plist, calls, issued, results, running, log, signing >>
                 ELSE /\ settings' = s1
                      /\ plist' = IF flags.Entitlements THEN "present" ELSE plist
                      /\ fsLog' = fsLog \cup
                           (IF flags.Entitlements
                            THEN { <<"copy", Resolve(cwd,
                                       EntitlementsPath(paths.pathResourcesRelativeToUserBuild))>> }
                            ELSE {})
                      /\ \E codes \in [1..Len(targets) -> SignCodes] :
                           LET ran  == IF broken THEN <<>> ELSE codes
                               code == ShellStatus(broken, codes)
                           IN  /\ (broken => \A i \in 1..Len(codes) : codes[i] = 0)
                               /\ signing' = [ done |-> TRUE, codes |-> ran ]
                               /\ calls' = [calls EXCEPT !["codesign"] = @ + Len(ran)]
                               /\ issued' = [issued EXCEPT !["codesign"] =
                                               [ entitlements |-> flags.Entitlements,
                                                 targets |-> targets ]]
                               /\ results' = [results EXCEPT !["codesign"] = code]
                               /\ Waited({"codesign"})
                               /\ IF code # 0
                                  THEN /\ Log({<<"Unable to sign", "">>})
                                       /\ Exit(code, "codesign")
                                  ELSE /\ Log({<<"finished code signing", "">>})
                                       /\ Goto("mac_package")
     ELSE /\ Goto("mac_package")
          /\ UNCHANGED << settings, fsLog, plist, calls, issued, results, running, log, signing >>
  /\ UNCHANGED << platform, argv, flags, binary, cwd, paths, manifests, uuid,
                  requests, notary, cin, cout, appx, icon, link, tree, ipc, cxx >>

\* an assignment that lands on the package root as well
SetArchiveOverPackage(p, zip) ==
  [p EXCEPT !.pathToArchive = zip, !.pathPackage = zip]

\* pathToArchive = fs::path { ... } : the one path the packaging assigns
SetArchive(p, zip) == [p EXCEPT !.pathToArchive = zip]

\* if (flagShouldPackage && platform.mac): ditto through std::system
MacPackaging ==
  /\ pc = "mac_package"
  /\ IF flags.ShouldPackage /\ platform = "mac"
     THEN LET zip == Join(Join(Target(argv), paths.pathOutput),
                          ToPath(Get(settings, "executable") \o <<".zip">>))
          IN  /\ paths' = SetArchive(paths, zip)
              /\ \E r \in ExitCodes :
                   /\ Call("ditto", [ from |-> paths.pathPackage, to |-> zip ], r)
                   /\ IF r # 0
                      THEN /\ Log({<<"error: failed to create zip for notarization", "">>})
                           /\ Exit(1, "ditto")
                      ELSE /\ Log({<<"craeted zip artifact", "">>})
                           /\ Goto("notarize")
     ELSE /\ Goto("notarize")
          /\ UNCHANGED << paths, calls, issued, results, running, log >>
  /\ UNCHANGED << platform, argv, flags, settings, binary, cwd, manifests,
                  uuid, requests, notary, fsLog, cin, cout, appx, signing, icon, link, plist, tree, ipc, cxx >>

\* ----------------------------------------------------------- notarization

\* what the submit command may print
SubmitOutputs ==
  { <<"No errors uploading", NL, "RequestUUID = ", "1234-ABCD", NL>>,
    <<"No errors uploading", NL>> }

\* what the status command may print
StatusOutputs ==
  { <<"No errors getting info", NL, " ", "Status: ", "in progress", NL>>,
    <<"No errors getting info", NL, "Status: ", "invalid", NL>>,
    <<"No errors getting info", NL, "Status: ", "success", NL>>,
    <<"No errors getting info", NL, "Status: ", "unknown", NL>>,
    <<>> }

\* what exec of the status command may give back, as output and exit code:
\* a query that is answered with a status the program knows ends with 0,
\* one that prints nothing or another status ends with 1, and so may one
\* that reports success
StatusResponses ==
  { [ output |-> o, code |-> IF Classify(ExtractStatus(o)) = "Failure" THEN 1 ELSE 0 ] :
      o \in StatusOutputs }
  \cup { [ output |-> o, code |-> 1 ] :
           o \in { t \in StatusOutputs : Classify(ExtractStatus(t)) = "Success" } }

\* if (flagShouldNotarize && platform.mac): submit, take the identifier
MacNotarizeSubmit ==
  /\ pc = "notarize"
  /\ IF flags.ShouldNotarize /\ platform = "mac"
     THEN /\ settings' = Touch(settings, "bundle_identifier")
          /\ \E code \in ExitCodes, output \in SubmitOutputs :
               /\ Call("altool-submit", [ file |-> paths.pathToArchive ], code)
               /\ IF code # 0
                  THEN /\ Log({<<"Unable to notarize", "">>})
                       /\ Exit(code, "altool-submit")
                       /\ UNCHANGED << uuid, requests, notary >>
                  ELSE /\ uuid' = ExtractUuid(output)
                       /\ requests' = 0
                       /\ notary' = IF ExtractUuid(output) = <<>>
                                    THEN "NoIdentifier" ELSE "Submitted"
                       /\ Log({<<"polling for notarization", "">>})
                       /\ Goto("poll")
     ELSE /\ Goto("win_package")
          /\ UNCHANGED << settings, calls, issued, results, running, log, uuid,
                          requests, notary >>
  /\ UNCHANGED << platform, argv, flags, binary, cwd, paths, manifests,
                  fsLog, cin, cout, appx, signing, icon, link, plist, tree, ipc, cxx >>

\* CeilingReached with the comparison off by one
CeilingReachedEarly(n) == n >= MaxRequests

\* if (++requests > 1024), on the value requests has after the increment
CeilingReached(n) == n > MaxRequests

\* a loop that goes round again whatever the response was
PollOutcomeNeverLeaves(output) ==
  [ verdict |-> Classify(ExtractStatus(output)),
    continues |-> TRUE,
    exits |-> FALSE ]

\* what one status response does to the loop: the verdict on it, whether the
\* loop goes round again (continue), and whether the process exits
PollOutcome(output) ==
  LET verdict == Classify(ExtractStatus(output))
  IN  [ verdict |-> verdict,
        continues |-> verdict = "Polling",
        exits |-> verdict = "Rejected" ]

\* what the loop makes of each response
Polled == [ r \in StatusResponses |-> PollOutcome(r.output) ]

\* one pass through  while (!uuid.empty()) { ... }  and, when the loop is
\* left by its condition or a break, the log line that follows it; the two
\* Windows blocks after it are not entered on macOS, the run comes
\* next
NotarizePoll ==
  /\ pc = "poll"
  /\ IF uuid = <<>>
     THEN /\ Log({<<"finished notarization", "">>})
          /\ Goto("run")
          /\ UNCHANGED << requests, notary, calls, issued, results, running >>
     ELSE IF CeilingReached(requests + 1)
     THEN /\ requests' = requests + 1
          /\ notary' = "TimedOut"
          /\ Log({<<"apple did not respond to the request for notarization", "">>})
          /\ Exit(1, "timeout")
          /\ UNCHANGED << calls, issued, results, running >>
     ELSE /\ requests' = requests + 1
          /\ \E response \in StatusResponses :
               LET o == Polled[response]
                   asked == [ calls EXCEPT !["sleep"] = @ + 1,
                                           !["altool-info"] = @ + 1 ]
                   sent == [ issued EXCEPT !["altool-info"] = [ uuid |-> uuid ] ]
                   \* r.exitCode of the status command, which main does not
                   \* look at
                   got == [ results EXCEPT !["altool-info"] = response.code ]
               IN  /\ notary' = o.verdict
                   /\ Waited({"altool-info", "altool-history"})
                   /\ IF o.continues
                      THEN /\ calls' = asked
                           /\ issued' = sent
                           /\ results' = got
                           /\ Log({<<"Checking for updates from apple", "">>})
                           /\ Goto("poll")
                      ELSE IF o.exits
                      THEN /\ calls' = [asked EXCEPT !["altool-history"] = @ + 1]
                           /\ issued' = [sent EXCEPT !["altool-history"] = <<"0">>]
                           /\ \E code \in ExitCodes :
                                /\ results' = [got EXCEPT !["altool-history"] = code]
                                /\ IF code # 0
                                   THEN /\ Log({<<"apple rejected the request for notarization", "">>,
                                                <<"output", "altool-info">>,
                                                <<"Unable to get notarization history", "">>})
                                        /\ Exit(code, "altool-history")
                                   ELSE /\ Log({<<"apple rejected the request for notarization", "">>,
                                                <<"output", "altool-info">>,
                                                <<"output", "altool-history">>})
                                        /\ Exit(1, "rejected")
                      ELSE /\ calls' = asked
                           /\ issued' = sent
                           /\ results' = got
                           /\ Log({ IF o.verdict = "Success"
                                    THEN <<"successfully notarized", "">>
                                    ELSE <<"apple was unable to notarize", "">>,
                                    <<"finished notarization", "">> })
                           /\ Goto("run")
  /\ UNCHANGED << platform, argv, flags, settings, binary, cwd, paths,
                  manifests, uuid, fsLog, cin, cout, appx, signing, icon, link, plist, tree, ipc, cxx >>

\* ------------------------------------------------------------------ Windows

\* the sub-steps of GetPackageWriter in the order they are made
WriterSteps == <<"stream", "uri", "factory", "writer">>

\* GetPackageWriter: every sub-step is made only while hr is a success, so
\* the writer is there exactly when none of them failed; "none" names the
\* call in which no sub-step fails
GetPackageWriter(failing) == failing = "none"

\* hr after addFiles: every payload file visited assigns the result of
\* opening it to hr, so the last one visited decides
HrAfterAddFiles(hr, opens) ==
  IF opens = <<>> THEN hr ELSE opens[Len(opens)]

\* the body of  if (flagShouldPackage && platform.win)  for one choice of
\* what succeeds: coInit (CoInitializeEx), failing (the sub-step of
\* GetPackageWriter that fails), opens (per payload file in the order of
\* the traversal, whether its stream opens), manifestOk (the stream on
\* AppxManifest.xml), closeOk (packageWriter->Close)
Appx(coInit, failing, opens, manifestOk, closeOk) ==
  LET writer     == coInit /\ GetPackageWriter(failing)
      files      == 1..Len(opens)
      hrFiles    == HrAfterAddFiles(writer, opens)
      hrManifest == hrFiles /\ manifestOk
      hr         == coInit /\ hrManifest /\ closeOk
  IN  [ done      |-> TRUE,
        coInit    |-> coInit,
        failing   |-> IF coInit THEN failing ELSE "none",
        opens     |-> IF coInit THEN opens ELSE <<>>,
        \* packageWriter->AddPayloadFile was called for these files
        added     |-> IF coInit THEN { i \in files : opens[i] } ELSE {},
        \* "Could not add file" was logged for these
        skipped   |-> IF coInit THEN { i \in files : ~opens[i] } ELSE {},
        \* a member of packageWriter was called while it was NULL
        nullWriter |-> coInit /\ ~writer /\ (\E i \in files : opens[i]),
        \* the stream on the manifest was asked for, and was opened
        manifestTried  |-> coInit /\ hrFiles,
        manifestOpened |-> coInit /\ hrFiles /\ manifestOk,
        \* packageWriter->Close(manifestStream) was called
        closeCalled |-> coInit /\ hrManifest,
        saved     |-> hr ]

\* the lines the packaging logs
AppxLines(a) ==
  (IF ~a.coInit THEN {<<"Unable to initialize package writer", "">>} ELSE {})
  \cup { <<"Could not add file", i>> : i \in a.skipped }
  \cup (IF a.coInit /\ ~a.manifestTried
        THEN {<<"Could not get package writer or add files", "">>} ELSE {})
  \cup (IF a.coInit /\ ~a.closeCalled
        THEN {<<"Could not generate AppxManifest.xml", "">>} ELSE {})
  \cup { IF a.saved THEN <<"Package saved", "">>
         ELSE <<"Unable to save package", "">> }

\* the first payload file whose stream opens: the first one handed to
\* packageWriter->AddPayloadFile
FirstAdded(opens) ==
  CHOOSE i \in 1..Len(opens) : opens[i] /\ \A j \in 1..(i - 1) : ~opens[j]

\* the packaging as a fault at the first call through the NULL
\* packageWriter leaves it: the files up to that one were visited, nothing
\* after the call was done
AppxFault(failing, opens) ==
  LET f == FirstAdded(opens)
  IN  [ done      |-> TRUE,
        coInit    |-> TRUE,
        failing   |-> failing,
        opens     |-> SubSeq(opens, 1, f),
        added     |-> {f},
        skipped   |-> 1..(f - 1),
        nullWriter |-> TRUE,
        manifestTried  |-> FALSE,
        manifestOpened |-> FALSE,
        closeCalled |-> FALSE,
        saved     |-> FALSE ]

\* if (flagShouldPackage && platform.win): the result of the packaging is
\* logged and the run goes on either way.  The package root may hold no
\* payload file at all.  A call through the NULL packageWriter is
\* undefined: the process is ended by the fault at the first such call, or
\* the call returns and main goes on.
WinPackaging ==
  /\ pc = "win_package"
  /\ IF flags.ShouldPackage /\ platform = "win"
     THEN \E coInit \in BOOLEAN,
             failing \in {"none"} \cup { WriterSteps[i] : i \in 1..Len(WriterSteps) },
             n \in 0..MaxFiles, manifestOk \in BOOLEAN, closeOk \in BOOLEAN :
            \E opens \in [1..n -> BOOLEAN] :
              LET a == Appx(coInit, failing, opens, manifestOk, closeOk)
              IN  \/ /\ appx' = a
                     /\ Log(AppxLines(a))
                     /\ Goto("win_sign")
                  \/ /\ a.nullWriter
                     /\ appx' = AppxFault(failing, opens)
                     /\ Log({ <<"Could not add file", i>> :
                                i \in AppxFault(failing, opens).skipped })
                     /\ Killed(FaultStatus, "fault")
     ELSE /\ Goto("win_sign")
          /\ UNCHANGED << log, appx >>
  /\ UNCHANGED << platform, argv, flags, settings, binary, cwd, paths,
                  manifests, uuid, requests, notary, calls, issued, results, running,
                  fsLog, cin, cout, signing, icon, link, plist, tree, ipc, cxx >>

\* the codes tee ends with
TeeCodes == {0, 1}

\* the exit code of exec(signCommand) for  signtool ... 2>&1 | tee sign.log :
\* the status of a pipeline is the status of its last command
PipeStatus(toolCode, teeCode) == teeCode

\* if (flagCodeSign && platform.win): signtool, piped into tee, through exec
WinCodeSign ==
  /\ pc = "win_sign"
  /\ IF flags.CodeSign /\ platform = "win"
     THEN \E pathToSignTool \in { <<>>, <<"signtool.exe">> },
             password \in { <<>>, <<"secret">> } :
            IF Len(pathToSignTool) = 0
            THEN /\ Log({<<"missing env var SIGNTOOL", "">>})
                 /\ Exit(1, "no_signtool")
                 /\ UNCHANGED << calls, issued, results, running >>
            ELSE \E toolCode \in ExitCodes, teeCode \in TeeCodes :
                   LET code == PipeStatus(toolCode, teeCode)
                   IN
                   /\ calls' = [calls EXCEPT !["signtool"] = @ + 1, !["tee"] = @ + 1]
                   /\ issued' = [issued EXCEPT !["signtool"] =
                                   [ tool |-> pathToSignTool, password |-> password,
                                     package |-> paths.pathPackage ]]
                   /\ results' = [results EXCEPT !["signtool"] = toolCode,
                                                 !["tee"] = teeCode]
                   /\ Waited({"signtool", "tee"})
                   /\ IF code # 0
                      THEN /\ Log({<<"Unable to sign", "">>,
                                   <<"output", "pathPackage">>,
                                   <<"output", "signtool">>})
                           /\ Exit(code, "signtool")
                      ELSE /\ Goto("run")
                           /\ UNCHANGED log
     ELSE /\ Goto("run")
          /\ UNCHANGED << calls, issued, results, running, log >>
  /\ UNCHANGED << platform, argv, flags, settings, binary, cwd, paths,
                  manifests, uuid, requests, notary, fsLog, cin, cout, appx, signing, icon, link, plist, tree, ipc, cxx >>

\* ---------------------------------------------------------------- the end

\* if (flagShouldRun) std::system(pathBin / execName); return 0
Run ==
  /\ pc = "run"
  /\ IF flags.ShouldRun
     THEN \E r \in ExitCodes :
            Call("runner",
                 [ cmd |-> Join(paths.pathBin,
                                ToPath(Get(settings, "executable")
                                         \o (IF platform = "win" THEN <<".exe">>
                                             ELSE <<>>))) ], r)
     ELSE UNCHANGED << calls, issued, results, running >>
  /\ Exit(0, "return")
  /\ UNCHANGED << platform, argv, flags, settings, binary, cwd, paths,
                  manifests, uuid, requests, notary, fsLog, log, cin, cout, appx, signing, icon, link, plist, tree, ipc, cxx >>

Next ==
  \/ ParseArgs
  \/ Validate
  \/ DebugSuffix
  \/ CleanOutput
  \/ ResolveLayout
  \/ RenderManifests
  \/ UserBuild
  \/ Compile
  \/ LinuxPackaging
  \/ MacCodeSign
  \/ MacPackaging
  \/ MacNotarizeSubmit
  \/ NotarizePoll
  \/ WinPackaging
  \/ WinCodeSign
  \/ Run

Spec == Init /\ [][Next]_vars

\* ------------------------------------------- the text functions on their own

\* the pieces of text a response is made of
Alphabet == { NL, " ", "Status: ", "in progress", "invalid", "success", "other" }

\* the texts of at most n pieces
Texts(n) == UNION { [1..k -> Alphabet] : k \in 0..n }

InitText ==
  /\ Fresh
  /\ platform = "mac"
  /\ argv = <<ProgramName>>
  /\ settings = [k \in {} |-> <<>>]
  /\ binary = "absent"
  /\ cin \in Texts(MaxTextLen)
  /\ cout = NoOutcome
  /\ icon = "absent"
  /\ tree = NoTree
  /\ link = "absent"
  /\ plist = "nodir"
  /\ cxx = UserCxx

\* the status extraction and the checks of the poll loop, applied to cin
ClassifyText ==
  /\ cout = NoOutcome
  /\ cout' = PollOutcome(cin)
  /\ UNCHANGED << pc, exitCode, exitAt, platform, argv, flags, settings,
                  binary, cwd, paths, manifests, uuid, requests, notary,
                  calls, issued, results, running, fsLog, log, cin, appx, signing, icon, link, plist, tree, ipc, cxx >>

NextText == ClassifyText

SpecText == InitText /\ [][NextText]_vars

\* the pieces of text the output of the submit command is made of
UuidAlphabet == { NL, " ", "RequestUUID = ", "1234-ABCD", "other" }

\* the submit outputs of at most n pieces
UuidTexts(n) == UNION { [1..k -> UuidAlphabet] : k \in 0..n }

InitUuid ==
  /\ Fresh
  /\ platform = "mac"
  /\ argv = <<ProgramName>>
  /\ settings = [k \in {} |-> <<>>]
  /\ binary = "absent"
  /\ cin \in UuidTexts(MaxTextLen)
  /\ cout = NoOutcome
  /\ icon = "absent"
  /\ tree = NoTree
  /\ link = "absent"
  /\ plist = "nodir"
  /\ cxx = UserCxx

\* the identifier extraction of the submit step, applied to cin
ExtractText ==
  /\ notary = "NotSubmitted"
  /\ uuid' = ExtractUuid(cin)
  /\ notary' = IF ExtractUuid(cin) = <<>> THEN "NoIdentifier" ELSE "Submitted"
  /\ UNCHANGED << pc, exitCode, exitAt, platform, argv, flags, settings,
                  binary, cwd, paths, manifests, requests, calls, issued,
                  results, running, fsLog, log, cin, cout, appx, signing, icon,
                  link, plist, tree, ipc, cxx >>

NextUuid == ExtractText

SpecUuid == InitUuid /\ [][NextUuid]_vars

\* ------------------------------------------------ the layout on its own

\* the texts name and executable take: a plain name and one that begins
\* with the directory separator
LayoutNames == { <<"foo">>, <<"/", "foo">> }

\* the texts output takes
LayoutOutputs == { <<"dist">>, <<"/", "out">> }

\* settings files that pass the validation, with these values
LayoutSettings ==
  { [ k \in RequiredSet \cup {"_cmd", "revision"} |->
        CASE k = "name" -> n
          [] k = "executable" -> e
          [] k = "output" -> o
          [] OTHER -> ValueOf[k] ] :
      n \in LayoutNames, e \in LayoutNames, o \in LayoutOutputs }

\* command lines: a relative, the current or an absolute project directory,
\* debug mode on or off
LayoutArgv ==
  { <<ProgramName, t>> \o f :
      t \in Targets \cup { <<"/", "p">> },
      f \in { <<>>, << <<"-", "x", "d">> >> } }

InitLayout ==
  /\ Fresh
  /\ platform \in Platforms
  /\ argv \in LayoutArgv
  /\ settings \in LayoutSettings
  /\ binary = "absent"
  /\ cin = <<>>
  /\ cout = NoOutcome
  /\ icon = "absent"
  /\ tree = NoTree
  /\ link = "absent"
  /\ plist = "nodir"
  /\ cxx \in CxxPool

\* main from its start to the end of the compile step
NextLayout ==
  \/ ParseArgs
  \/ Validate
  \/ DebugSuffix
  \/ CleanOutput
  \/ ResolveLayout
  \/ RenderManifests
  \/ UserBuild
  \/ Compile

SpecLayout == InitLayout /\ [][NextLayout]_vars

\* -------------------------------------- the Windows payload on its own

\* the file name of the package manifest
ManifestName == <<"AppxManifest.xml">>

\* p.find("AppxManifest.xml") == 0 : the file name begins with that text
SkippedByName(name) == Len(name) > 0 /\ name[1] = "AppxManifest.xml"

\* addFiles(basePath, last): entries are the regular files below basePath as
\* paths relative to it; the result is the set of names AddPayloadFile is
\* called with when every stream opens.  An entry whose name begins with
\* the manifest's name is passed over, a directory is descended into, a
\* file is added under  last / filename .
RECURSIVE AddFiles(_, _)
AddFiles(entries, last) ==
  UNION { IF SkippedByName(e) THEN {}
          ELSE IF \E f \in entries : f[1] = e /\ Len(f) > 1
          THEN AddFiles({ Tail(f) : f \in { g \in entries : g[1] = e } },
                        last \o <<e>>)
          ELSE { last \o <<e>> } :
          e \in { f[1] : f \in entries } }

\* directories below the package root, and file names
TreeDirs == { <<>>, << <<"sub">> >>, << <<"AppxManifest.xml", ".d">> >> }
TreeNames == { ManifestName, <<"AppxManifest.xml", ".bak">>, <<"app", ".exe">>,
               <<"my", "AppxManifest.xml">> }
TreePaths == { d \o <<n>> : d \in TreeDirs, n \in TreeNames }

\* package roots: the manifest the preparation wrote and up to MaxFiles
\* other files
Trees ==
  { {<<ManifestName>>} \cup S :
      S \in { T \in SUBSET (TreePaths \ {<<ManifestName>>}) :
                Cardinality(T) <= MaxFiles } }

InitPayload ==
  /\ Fresh
  /\ platform = "win"
  /\ argv = <<ProgramName>>
  /\ settings = [k \in {} |-> <<>>]
  /\ binary = "absent"
  /\ cin = <<>>
  /\ cout = NoOutcome
  /\ icon = "absent"
  /\ tree \in Trees
  /\ link = "absent"
  /\ plist = "nodir"
  /\ cxx = UserCxx

\* addFiles(pathPackage.c_str(), fs::path {}) with every stream opening
AddPayloadFiles ==
  /\ appx = NoAppx
  /\ appx' = [ done |-> TRUE, payload |-> AddFiles(tree, <<>>) ]
  /\ UNCHANGED << pc, exitCode, exitAt, platform, argv, flags, settings,
                  binary, cwd, paths, manifests, uuid, requests, notary,
                  calls, issued, results, running, fsLog, log, cin, cout, signing,
                  icon, link, plist, tree, ipc, cxx >>

NextPayload == AddPayloadFiles

SpecPayload == InitPayload /\ [][NextPayload]_vars

\* --------------------------------------------- the flag loop on its own

\* argv[0]: the plain program name, and one reached through a directory
\* whose name holds a dash
FlagPrograms == { ProgramName, <<".", "/", "n", "-", "r", "/", "o", "p">> }

\* argv[1]: the current directory, a plain name, names that hold a dash
FlagTargets == { <<".">>, <<"a", "p", "p">>, <<"m", "y", "-", "p", "k", "g">>,
                 <<"a", "-", "h">> }

\* further arguments: the flags themselves and texts that hold one
FlagArgs ==
  { FlagOrder[i] : i \in 1..Len(FlagOrder) }
  \cup { <<"-", "p", "x">>, <<"a", "-", "c">>, <<"-", "-", "o", "u", "t">> }

\* the command lines: program name, project directory, up to MaxFlagArgs
\* further arguments
FlagArgv ==
  { <<prog, t>> \o rest :
      prog \in FlagPrograms, t \in FlagTargets,
      rest \in UNION { [1..k -> FlagArgs] : k \in 0..MaxFlagArgs } }

InitFlags ==
  /\ Fresh
  /\ platform = "linux"
  /\ argv \in FlagArgv
  /\ settings = [k \in {} |-> <<>>]
  /\ binary = "absent"
  /\ cin = <<>>
  /\ cout = NoOutcome
  /\ icon = "absent"
  /\ tree = NoTree
  /\ link = "absent"
  /\ plist = "nodir"
  /\ cxx \in CxxPool

\* main up to the end of the flag loop
NextFlags == ParseArgs

SpecFlags == InitFlags /\ [][NextFlags]_vars

\* ------------------------------------------- the IPC bridge (preload.hh)

\* the properties window._ipc has of its own besides the requests; all of
\* them are truthy and none has a resolve or reject member
IpcOwnProps == { "nextSeq", "streams", "resolve", "send", "emit" }

\* the properties window._ipc, an object literal, inherits from
\* Object.prototype: functions, and the prototype itself under __proto__;
\* all of them are truthy and none has a resolve or reject member
IpcInheritedProps ==
  { "constructor", "hasOwnProperty", "isPrototypeOf", "propertyIsEnumerable",
    "toLocaleString", "toString", "valueOf", "__proto__",
    "__defineGetter__", "__defineSetter__", "__lookupGetter__",
    "__lookupSetter__" }

\* the property key a sequence number is stored under
IpcKey(seq) == ToString(seq)

\* a counter that is never advanced
NextSeqStuck(n) == n

\* window._ipc.nextSeq++ : the value the counter has afterwards
NextSeq(n) == n + 1

\* resolve(value) or reject(err) of a promise: only a pending promise
\* changes its state
Settle(state, status) ==
  IF state # "pending" THEN state
  ELSE IF status = 0 THEN "fulfilled" ELSE "rejected"

\* window._ipc.send(name, o); serializes is whether the try block gets
\* through.  The request is stored before the try block, so it stays when
\* the block throws and nothing is handed to the host.
IpcSend(serializes) ==
  /\ ipc.nextSeq <= MaxSends
  /\ LET seq == ipc.nextSeq
         key == IpcKey(seq)
     IN  ipc' = [ ipc EXCEPT
                    !.nextSeq = NextSeq(seq),
                    !.obj = @ \cup {key},
                    !.promise = (key :> "pending") @@ @,
                    !.settles = (key :> 0) @@ @,
                    !.issuedSeqs = Append(@, seq),
                    !.invoked = IF serializes THEN @ \cup {key} ELSE @,
                    !.last = [ op |-> "send", key |-> key,
                               outcome |-> IF serializes THEN "invoked"
                                           ELSE "threw" ] ]
  /\ UNCHANGED << pc, exitCode, exitAt, platform, argv, flags, settings,
                  binary, cwd, paths, manifests, uuid, requests, notary,
                  calls, issued, results, running, fsLog, log, cin, cout, appx,
                  signing, icon, link, plist, tree, cxx >>

\* window._ipc.resolve(seq, status, value) up to its await; decodes is
\* whether decodeURIComponent and JSON.parse get through
IpcReply(key, status, decodes) ==
  /\ ipc.replies < MaxReplies
  /\ LET truthy == key \in ipc.obj \cup IpcOwnProps \cup IpcInheritedProps
         outcome == IF ~decodes THEN "undecodable"
                    ELSE IF ~truthy THEN "unknown"
                    ELSE IF key \notin ipc.obj THEN "threw"
                    ELSE "settled"
     IN  ipc' = [ ipc EXCEPT
                    !.replies = @ + 1,
                    !.promise = IF outcome = "settled"
                                THEN [@ EXCEPT ![key] = Settle(@, status)]
                                ELSE @,
                    !.settles = IF outcome = "settled"
                                   /\ Settle(ipc.promise[key], status) # ipc.promise[key]
                                THEN [@ EXCEPT ![key] = @ + 1]
                                ELSE @,
                    !.awaiting = IF outcome = "settled" THEN Append(@, key) ELSE @,
                    !.last = [ op |-> "reply", key |-> key, outcome |-> outcome ] ]
  /\ UNCHANGED << pc, exitCode, exitAt, platform, argv, flags, settings,
                  binary, cwd, paths, manifests, uuid, requests, notary,
                  calls, issued, results, running, fsLog, log, cin, cout, appx,
                  signing, icon, link, plist, tree, cxx >>

\* the rest of a call of resolve after its await:  delete window._ipc[seq]
IpcResume ==
  /\ ipc.awaiting # <<>>
  /\ LET key == Head(ipc.awaiting)
     IN  ipc' = [ ipc EXCEPT
                    !.awaiting = Tail(@),
                    !.obj = @ \ {key},
                    !.last = [ op |-> "resume", key |-> key, outcome |-> "deleted" ] ]
  /\ UNCHANGED << pc, exitCode, exitAt, platform, argv, flags, settings,
                  binary, cwd, paths, manifests, uuid, requests, notary,
                  calls, issued, results, running, fsLog, log, cin, cout, appx,
                  signing, icon, link, plist, tree, cxx >>

\* the sequence arguments a reply may carry: numbers given out or not, the
\* names of the properties window._ipc has or inherits, and a name it does
\* not have
ReplyKeys ==
  { IpcKey(n) : n \in 1..(MaxSends + 1) }
  \cup IpcOwnProps \cup IpcInheritedProps \cup { "missing" }

InitIpc ==
  /\ Fresh
  /\ platform = "mac"
  /\ argv = <<ProgramName>>
  /\ settings = [k \in {} |-> <<>>]
  /\ binary = "absent"
  /\ cin = <<>>
  /\ cout = NoOutcome
  /\ icon = "absent"
  /\ tree = NoTree
  /\ link = "absent"
  /\ plist = "nodir"
  /\ cxx = UserCxx

NextIpc ==
  \/ \E serializes \in BOOLEAN : IpcSend(serializes)
  \/ \E key \in ReplyKeys, status \in {0, 1}, decodes \in BOOLEAN :
       IpcReply(key, status, decodes)
  \/ IpcResume

SpecIpc == InitIpc /\ [][NextIpc]_vars

\* ================================================================= claims

ValidationExits == {"help", "no_cmd", "missing_key"}

\* C1 (as claimed): when the submit output holds no request identifier, the
\* run ends with a nonzero exit status, after one submission, without any
\* status query and without running the built program.
C1_NoIdentifierAborts ==
  (notary = "NoIdentifier" /\ pc = "exited") =>
    /\ exitCode # 0
    /\ calls["altool-submit"] = 1
    /\ calls["altool-info"] = 0
    /\ calls["runner"] = 0

\* C2: the poll loop makes at most 1024 status queries, every pass up to
\* then makes one, and the pass after the 1024th ends the process in
\* TimedOut with a nonzero exit status.
C2_PollCeiling ==
  /\ calls["altool-info"] <= MaxRequests
  /\ requests <= MaxRequests + 1
  /\ (pc = "poll" /\ uuid # <<>>) => calls["altool-info"] = requests
  /\ notary = "TimedOut" =>
       /\ pc = "exited"
       /\ exitCode # 0
       /\ calls["altool-info"] = MaxRequests
       /\ requests = MaxRequests + 1

C2_TimedOut ==
  /\ notary = "TimedOut"
  /\ exitAt = "timeout"
  /\ calls["altool-info"] = MaxRequests

\* the lines of a text that have a newline before and after them, as pairs
\* of the positions of the two newlines
EnclosedLines(t) ==
  { ab \in (1..Len(t)) \X (1..Len(t)) :
      /\ ab[1] < ab[2]
      /\ t[ab[1]] = NL
      /\ t[ab[2]] = NL
      /\ \A i \in (ab[1] + 1)..(ab[2] - 1) : t[i] # NL }

\* the number of spaces a line begins with
LeadingSpaces(l) ==
  CHOOSE n \in 0..Len(l) :
    /\ \A i \in 1..n : l[i] = " "
    /\ n < Len(l) => l[n + 1] # " "

\* a line of spaces, "Status: " and a phrase that is not empty
IsStatusLine(l) ==
  /\ Len(l) >= LeadingSpaces(l) + 2
  /\ l[LeadingSpaces(l) + 1] = "Status: "

\* the phrase of the first status line of a text, <<>> when it has none
FirstStatusPhrase(t) ==
  LET lines == { ab \in EnclosedLines(t) :
                   IsStatusLine(SubSeq(t, ab[1] + 1, ab[2] - 1)) }
  IN  IF lines = {} THEN <<>>
      ELSE LET ab == CHOOSE x \in lines : \A y \in lines : x[1] <= y[1]
               l  == SubSeq(t, ab[1] + 1, ab[2] - 1)
           IN  SubSeq(l, LeadingSpaces(l) + 2, Len(l))

\* C3: a response whose first status line reads "in progress" is Polling and
\* keeps the loop going, one that reads "invalid" is Rejected, one that reads
\* "success" is Success, and a response whose status line holds none of the
\* three phrases, or that has no status line, is a Failure; none of the last
\* three keeps the loop going.
C3_Classification ==
  cout # NoOutcome =>
    LET phrase == FirstStatusPhrase(cin)
        has(w) == \E i \in 1..Len(phrase) : phrase[i] = w
    IN  /\ phrase = <<"in progress">> => cout.verdict = "Polling" /\ cout.continues
        /\ phrase = <<"invalid">> => cout.verdict = "Rejected" /\ ~cout.continues
        /\ phrase = <<"success">> => cout.verdict = "Success" /\ ~cout.continues
        /\ (~has("in progress") /\ ~has("invalid") /\ ~has("success")) =>
             cout.verdict = "Failure" /\ ~cout.continues

C3_InProgressPolls ==
  /\ cin = <<NL, " ", "Status: ", "in progress", NL>>
  /\ cout.verdict = "Polling"

\* C4 (as claimed): a status response that matches none of the phrases ends
\* the process with a nonzero exit status and the built program is not run.
C4_UnmatchedStatusFatal ==
  (notary = "Failure" /\ pc = "exited") =>
    /\ exitCode # 0
    /\ calls["runner"] = 0

\* C5 (as claimed): after a status response holding "invalid" the history
\* command is invoked once, its output is logged, and the process ends with
\* a nonzero exit status.
C5_RejectedReportsHistory ==
  notary = "Rejected" =>
    /\ pc = "exited"
    /\ exitCode # 0
    /\ calls["altool-history"] = 1
    /\ <<"output", "altool-history">> \in log

\* C6 (as claimed): settings that hold the six required keys and one of
\* win_cmd, mac_cmd, linux_cmd do not end the run at the validation.
C6_ValidSettingsPass ==
  (RequiredSet \subseteq DOMAIN settings /\ PlatformCmdKeys \cap DOMAIN settings # {})
    => exitAt \notin {"no_cmd", "missing_key"}

\* C7 (as claimed): settings that lack a required key, or hold none of
\* win_cmd, mac_cmd, linux_cmd, end the run at the validation with exit
\* status 1 and a log line, nothing having been changed.
C7_InvalidSettingsExit ==
  ( /\ ~(RequiredSet \subseteq DOMAIN settings)
         \/ PlatformCmdKeys \cap DOMAIN settings = {}
    /\ pc \notin {"start", "validate"}
    /\ exitAt # "help" )
  => /\ pc = "exited"
     /\ exitCode = 1
     /\ \E e \in log : e[1] = "required"
     /\ fsLog = {}
     /\ paths = NoPaths
     /\ manifests = NoManifests
     /\ \A t \in Tools : calls[t] = 0

\* C8: debug mode is on unless "-xd" is among the arguments; once the debug
\* step is passed, name, title and executable are the
\* values of the settings file followed by "-dev" once in debug mode and
\* unchanged otherwise, and the executable file name, the package name, the
\* binary directory and path, the Linux install and icon paths, the archive
\* name and the settings every manifest is rendered from carry these values.
C8_DebugSuffixOnce ==
  LET sfx == IF flags.DebugMode THEN <<"-dev">> ELSE <<>>
      N == ValueOf.name \o sfx
      T == ValueOf.title \o sfx
      E == ValueOf.executable \o sfx
      ext == IF platform = "win" THEN <<".exe">> ELSE <<>>
      Last(p) == p[Len(p)]
  IN  /\ (pc # "start" /\ exitAt # "help") =>
           flags.DebugMode = ~(\E i \in 1..Len(argv) : argv[i] = <<"-", "x", "d">>)
      /\ (pc \notin {"start", "validate", "debug"} /\ exitAt \notin ValidationExits) =>
           /\ settings["name"] = N
           /\ settings["title"] = T
           /\ settings["executable"] = E
      /\ paths.packageName # <<>> =>
           /\ paths.executable = << E \o ext >>
           /\ paths.packageName =
                << CASE platform = "mac" -> N \o <<".app">>
                     [] platform = "linux" ->
                          E \o <<"_">> \o ValueOf.version \o <<"-">>
                            \o Get(settings, "revision") \o <<"_">> \o ValueOf.arch
                     [] platform = "win" -> E \o <<"-">> \o ValueOf.version >>
           /\ Last(paths.pathPackage) = paths.packageName[1]
           /\ platform = "linux" =>
                /\ Last(paths.pathBin) = N
                /\ Last(paths.pathResourcesRelativeToUserBuild) = N
           /\ (platform = "linux" /\ manifests # NoManifests) =>
                /\ settings["linux_executable_path"] =
                     <<"/", "opt", "/">> \o N \o <<"/">> \o E
                /\ settings["linux_icon_path"] =
                     <<"/", "usr", "/", "share", "/", "icons", "/", "hicolor", "/",
                       "256x256", "/", "apps", "/">> \o E \o <<".png">>
           /\ \A m \in DOMAIN manifests :
                /\ manifests[m]["name"] = N
                /\ manifests[m]["title"] = T
                /\ manifests[m]["executable"] = E
      /\ paths.binaryPath # <<>> => Last(paths.binaryPath) = E \o ext
      /\ paths.pathToArchive # <<>> => Last(paths.pathToArchive) = E \o <<".zip">>

C8_SuffixedBinaryPath ==
  /\ flags.DebugMode
  /\ platform = "linux"
  /\ paths.binaryPath # <<>>
  /\ paths.binaryPath[Len(paths.binaryPath)] = <<"foo", "-dev">>
  /\ paths.binaryPath[Len(paths.binaryPath) - 1] = <<"foo", "-dev">>

\* C9: the compile step invokes the compiler once, except when "-o" is among
\* the arguments and a file, stale or not, is at the binary path: then it
\* does not invoke it.  No other step invokes the compiler.
C9_CompileSkippedIffPreviousBuild ==
  [][ LET requested == \E i \in 1..Len(argv) : argv[i] = <<"-", "o">>
          skip == requested /\ binary \in {"stale", "fresh"}
      IN  /\ calls'["compile"] =
                calls["compile"] + (IF pc = "compile" /\ ~skip THEN 1 ELSE 0)
          /\ calls'["compile"] <= 1 ]_vars

C9_StaleBinarySkipsCompile ==
  /\ pc = "linux_package"
  /\ flags.RunUserBuild
  /\ binary = "stale"
  /\ calls["compile"] = 0

\* C10: a user build command that ends with a nonzero code ends the process
\* with that code before the compiler is invoked, and a compile command that
\* ends with a nonzero code ends the process with that code before any
\* packaging, signing, notarization or run is started.
C10_BuildFailureForwarded ==
  /\ results["userbuild"] > 0 =>
       /\ pc = "exited"
       /\ exitCode = results["userbuild"]
       /\ calls["compile"] = 0
  /\ results["compile"] > 0 =>
       /\ pc = "exited"
       /\ exitCode = results["compile"]
       /\ \A t \in Tools \ {"userbuild", "compile"} : calls[t] = 0
       /\ \A e \in log : e[1] \notin {"Package saved", "Unable to save package"}

C10_CompileFailed ==
  /\ results["compile"] = 2
  /\ exitCode = 2
  /\ flags.ShouldPackage
  /\ flags.ShouldRun

\* C11 (as claimed): a run ended by a failing user build or compile command
\* has the output of that command in its log.
C11_FailureOutputSurfaced ==
  /\ exitAt = "userbuild" => <<"output", "userbuild">> \in log
  /\ exitAt = "compile" => <<"output", "compile">> \in log

\* C12 (as claimed): a packaging tool (dpkg-deb, ditto) that ends with a
\* nonzero code ends the process with that same code.
C12_PackagingCodeForwarded ==
  /\ results["dpkg-deb"] > 0 =>
       pc = "exited" /\ exitCode = results["dpkg-deb"]
  /\ results["ditto"] > 0 =>
       pc = "exited" /\ exitCode = results["ditto"]

\* C13 (as claimed): the user build step runs the command the settings give
\* for the host platform (mac_cmd, linux_cmd, win_cmd), with the resources
\* path the layout gives to the user build and the debug flag as arguments.
C13_PlatformCommandInvoked ==
  calls["userbuild"] > 0 =>
    /\ issued["userbuild"].cmd =
         Get(settings, CASE platform = "mac" -> "mac_cmd"
                         [] platform = "linux" -> "linux_cmd"
                         [] platform = "win" -> "win_cmd")
    /\ issued["userbuild"].arg = paths.pathResourcesRelativeToUserBuild
    /\ issued["userbuild"].debug = (IF flags.DebugMode THEN 1 ELSE 0)

\* C14 (as claimed): whatever the platform and the values of the settings,
\* the binary path lies below the package path.
C14_BinaryBelowPackage ==
  paths.binaryPath # <<>> =>
    /\ IsPrefix(Resolve(cwd, paths.pathPackage), Resolve(cwd, paths.binaryPath))
    /\ Resolve(cwd, paths.pathPackage) # Resolve(cwd, paths.binaryPath)

\* the settings of the Linux example
C15_Settings ==
  [ k \in {"name", "executable", "output", "version", "arch", "revision",
           "linux_cmd"} |-> ValueOf[k] ]

\* C15 (as claimed): on Linux a run with the example settings ends with the
\* package path dist/foo_1.0-1_amd64 and the binary path
\* dist/foo_1.0-1_amd64/opt/foo/foo below the project directory, and with
\* packaging requested dpkg-deb was invoked once to build into dist.
C15_LinuxExampleLayout ==
  ( /\ platform = "linux"
    /\ settings = C15_Settings
    /\ pc = "exited"
    /\ exitAt # "help" )
  => /\ paths.pathPackage =
          Join(Target(argv), << <<"dist">>, <<"foo", "_", "1.0", "-", "1", "_", "amd64">> >>)
     /\ paths.binaryPath = paths.pathPackage \o << <<"opt">>, <<"foo">>, <<"foo">> >>
     /\ flags.ShouldPackage =>
          /\ calls["dpkg-deb"] = 1
          /\ issued["dpkg-deb"].into = Join(Target(argv), << <<"dist">> >>)

\* C16 (as claimed): no manifest is written with a placeholder left in it.
C16_NoUnresolvedPlaceholderWritten ==
  \A e \in fsLog : e[1] = "writeFile" => e[3] = {}

\* C17 (as claimed): when a sub-step of the Windows packaging fails (the
\* output stream, the factory, the package writer, the manifest stream, the
\* finalization) the process ends with a nonzero exit status and neither the
\* signing tool nor the built program is run.
C17_PackagingFailureFatal ==
  ( /\ appx.done
    /\ appx.coInit
    /\ \/ appx.failing \in {"stream", "factory", "writer"}
       \/ appx.manifestTried /\ ~appx.manifestOpened
       \/ appx.closeCalled /\ ~appx.saved )
  => /\ pc = "exited"
     /\ exitCode # 0
     /\ calls["signtool"] = 0
     /\ calls["runner"] = 0

\* C18 (as claimed): when one payload file cannot be added and the package
\* writer is there, the file is logged, every other file is added, the
\* manifest stream is asked for and, once it is open, the package is
\* finalized, whichever file it was.
C18_SkippedFileArchiveCompleted ==
  ( /\ appx.done
    /\ appx.coInit
    /\ appx.failing = "none"
    /\ Cardinality(appx.skipped) = 1 )
  => /\ \A i \in appx.skipped : <<"Could not add file", i>> \in log
     /\ appx.added = (1..Len(appx.opens)) \ appx.skipped
     /\ appx.manifestTried
     /\ appx.manifestOpened => appx.closeCalled

\* C19 (as claimed): the macOS code signing invokes codesign for every path
\* of mac_sign_paths in list order, then for the binary, then for the
\* package, and when one of these invocations ends with a nonzero code the
\* process ends with that code.  Stated for settings that name auxiliary
\* paths.
C19_AnySignFailureFatal ==
  (signing.done /\ SignPaths(settings) # <<>>) =>
    /\ issued["codesign"].targets =
         [ i \in 1..Len(SignPaths(settings)) |->
             Join(paths.pathResources, ToPath(SignPaths(settings)[i])) ]
           \o << Join(paths.pathBin, paths.executable), paths.pathPackage >>
    /\ Len(signing.codes) = Len(issued["codesign"].targets)
    /\ \A i \in 1..Len(signing.codes) :
         signing.codes[i] # 0 => (pc = "exited" /\ exitCode = signing.codes[i])

\* C20 (as claimed): when signtool ends with a nonzero code the package path
\* and the output of the command are logged and the process ends with a
\* nonzero exit status.
C20_SigntoolFailureFatal ==
  results["signtool"] > 0 =>
    /\ pc = "exited"
    /\ exitCode # 0
    /\ <<"output", "pathPackage">> \in log
    /\ <<"output", "signtool">> \in log

\* C21 (as claimed): signtool is invoked only when the environment gives both
\* the path of the tool and the password, and a run in which the tool path
\* is missing ends with a nonzero exit status without invoking it.
C21_SigntoolNeedsPathAndPassword ==
  /\ calls["signtool"] > 0 =>
       /\ issued["signtool"].tool # <<>>
       /\ issued["signtool"].password # <<>>
  /\ exitAt = "no_signtool" => (exitCode # 0 /\ calls["signtool"] = 0)

\* C22: in a run with "run previous build only" over an output directory a
\* previous run has filled (the binary is there, and on Linux the icon), the
\* package preparation creates its directories and writes its manifests
\* without ending the run, the compiler is never invoked, and the binary
\* and the icon stay as they were.
C22_RerunPreparesAndSkipsCompile ==
  [][ ( /\ flags.RunUserBuild
        /\ binary # "absent"
        /\ calls["compile"] = 0
        /\ platform = "linux" => icon = "present" )
      => /\ pc = "prepare" =>
              /\ pc' = "manifests"
              /\ exitAt' = "none"
              /\ \E e \in fsLog' : e[1] = "create_directories"
         /\ pc = "manifests" =>
              /\ pc' = "userbuild"
              /\ exitAt' = "none"
              /\ manifests' # NoManifests
              /\ \E e \in fsLog' : e[1] = "create_directories"
              /\ \E e \in fsLog' : e[1] = "writeFile"
              /\ \A e \in fsLog' : e[1] # "copy"
         /\ calls'["compile"] = 0
         /\ binary' = binary
         /\ icon' = icon ]_vars

C22_LinuxRerunReachedPackaging ==
  /\ platform = "linux"
  /\ pc = "linux_package"
  /\ flags.RunUserBuild
  /\ binary = "stale"
  /\ icon = "present"
  /\ calls["compile"] = 0
  /\ manifests # NoManifests

\* the text of the first line that is enclosed by newlines, begins with
\* "RequestUUID = " and goes on after it; <<>> when there is no such line
FirstUuidLine(t) ==
  LET lines == { ab \in EnclosedLines(t) :
                   /\ ab[2] - ab[1] >= 3
                   /\ t[ab[1] + 1] = "RequestUUID = " }
  IN  IF lines = {} THEN <<>>
      ELSE LET ab == CHOOSE x \in lines : \A y \in lines : x[1] <= y[1]
           IN  SubSeq(t, ab[1] + 2, ab[2] - 1)

\* C23: the identifier extracted from a submit output is what follows
\* "RequestUUID = " up to the end of the line, for the first line that
\* begins with it right after a newline and is ended by one; a text with no
\* such line gives no identifier.
C23_UuidExtraction ==
  notary # "NotSubmitted" =>
    /\ uuid = FirstUuidLine(cin)
    /\ (notary = "NoIdentifier") = (FirstUuidLine(cin) = <<>>)

C23_ExampleIdentifier ==
  /\ cin = <<NL, "RequestUUID = ", "1234-ABCD", NL>>
  /\ uuid = <<"1234-ABCD">>
  /\ notary = "Submitted"

\* C24 (as claimed): the built program is launched only by a run that asked
\* for it, from the binary path, after every packaging, signing and
\* notarization step that was entered ended without an error, and such a
\* run ends with exit status 0 whatever the program returns.
C24_RunnerLastAfterSuccess ==
  calls["runner"] > 0 =>
    /\ flags.ShouldRun
    /\ pc = "exited" /\ exitAt = "return" /\ exitCode = 0
    /\ calls["runner"] = 1
    /\ issued["runner"].cmd = paths.binaryPath
    /\ \A t \in {"dpkg-deb", "codesign", "ditto", "altool-submit", "signtool"} :
         results[t] \in {-1, 0}
    /\ \A i \in 1..Len(signing.codes) : signing.codes[i] = 0
    /\ notary \in {"NotSubmitted", "Success"}
    /\ appx.done => appx.saved

\* C25 (as claimed): once the validation is passed the settings hold name,
\* title, executable, output, version, arch and the build command key of
\* the host platform, in every later state of the run.
C25_MandatoryKeysKept ==
  (pc \notin {"start", "validate"} /\ exitAt \notin ValidationExits) =>
    /\ RequiredSet \subseteq DOMAIN settings
    /\ (CASE platform = "mac" -> "mac_cmd"
          [] platform = "linux" -> "linux_cmd"
          [] platform = "win" -> "win_cmd") \in DOMAIN settings

\* C26 (as claimed): the payload of the Windows archive is every regular
\* file under the package root, at any depth, except the one
\* AppxManifest.xml at the root.
C26_PayloadIsAllButRootManifest ==
  appx.done => appx.payload = tree \ {<<ManifestName>>}

\* C27 (as claimed): once the user build command has been run the working
\* directory is again the directory main was started in, whether the
\* command succeeded or failed.
C27_CwdRestoredAfterUserBuild ==
  calls["userbuild"] > 0 => Normal(cwd) = Normal(StartDir)

\* the traces the steps of a run leave in the state
DoneLayout == paths.pathPackage # <<>>
DoneManifests == manifests # NoManifests
DoneUserBuild == calls["userbuild"] > 0
DoneCompile == calls["compile"] > 0
DonePackage == calls["dpkg-deb"] > 0 \/ calls["ditto"] > 0 \/ appx.done
DoneSign == signing.done \/ calls["codesign"] > 0 \/ calls["signtool"] > 0
DoneNotarize == calls["altool-submit"] > 0
DoneRun == calls["runner"] > 0

\* the transition does something that belongs to the step
ActsValidation == pc = "validate" /\ pc' # pc
ActsLayout ==
  \/ paths'.pathPackage # paths.pathPackage
  \/ paths'.pathBin # paths.pathBin
  \/ paths'.pathResources # paths.pathResources
  \/ paths'.pathResourcesRelativeToUserBuild # paths.pathResourcesRelativeToUserBuild
ActsManifests == manifests' # manifests
ActsUserBuild == calls'["userbuild"] # calls["userbuild"]
ActsCompile == calls'["compile"] # calls["compile"]
ActsPackage ==
  \/ calls'["dpkg-deb"] # calls["dpkg-deb"]
  \/ calls'["ditto"] # calls["ditto"]
  \/ appx' # appx
ActsSign ==
  \/ signing' # signing
  \/ calls'["codesign"] # calls["codesign"]
  \/ calls'["signtool"] # calls["signtool"]
ActsNotarize ==
  \E t \in {"altool-submit", "altool-info", "altool-history", "sleep"} :
    calls'[t] # calls[t]

\* a transition keeps the order validation, layout, manifests, user build,
\* compile, packaging and code signing, notarization, run: a step acts only
\* while no step that comes after it has left its trace.  Code signing
\* comes after packaging, or before it where signFirst holds.
StepOrderKept(signFirst) ==
  LET afterSigning == DoneNotarize \/ DoneRun
      afterCompile == DonePackage \/ DoneSign \/ afterSigning
      afterUserBuild == DoneCompile \/ afterCompile
      afterManifests == DoneUserBuild \/ afterUserBuild
      afterLayout == DoneManifests \/ afterManifests
  IN  /\ ActsValidation => ~(DoneLayout \/ afterLayout)
      /\ ActsLayout => ~afterLayout
      /\ ActsManifests => ~afterManifests
      /\ ActsUserBuild => ~afterUserBuild
      /\ ActsCompile => ~afterCompile
      /\ ActsPackage => ~afterSigning /\ (~signFirst => ~DoneSign)
      /\ ActsSign => ~afterSigning /\ (signFirst => ~DonePackage)
      /\ ActsNotarize => ~DoneRun

\* a transition of main begins with no external process running: what
\* the steps before it started has ended
PreviousProcessExited == running = {}

\* C28 (as claimed): the steps occur in the order validation, layout,
\* manifests, user build, compile, packaging, code signing, notarization,
\* run: once a step has happened no step listed before it acts again; in
\* particular the artifact is assembled before the code is signed; and no
\* step starts before the external process of the step before it has
\* exited.
C28_ClaimedStepOrder ==
  [][StepOrderKept(FALSE) /\ PreviousProcessExited]_vars

\* C28 (amended): the steps occur in the order validation, layout,
\* manifests, user build, compile, then packaging and code signing, then
\* notarization, then run; on Linux and Windows the artifact is assembled
\* before the code is signed, on macOS the bundle is signed before the zip
\* artifact is made from it; and no step starts before the external
\* process of the step before it has exited.
C28_StepOrder ==
  [][StepOrderKept(platform = "mac") /\ PreviousProcessExited]_vars

\* a macOS run that built, compiled, signed the bundle and then made the
\* zip artifact from it
C28_MacSignedThenZipped ==
  /\ platform = "mac" /\ pc = "exited" /\ exitAt = "return"
  /\ DoneLayout /\ DoneManifests /\ DoneUserBuild /\ DoneCompile
  /\ ~DoneNotarize /\ ~DoneRun
  /\ signing.done /\ calls["codesign"] > 0 /\ calls["ditto"] > 0

\* C29: a status query is made only while an identifier is there and the
\* request is submitted or still in progress, each query comes with exactly
\* one sleep of the fixed interval since the previous query or the
\* submission, and nothing sleeps without querying.
C29_OneSleepPerQuery ==
  [][ /\ calls'["altool-info"] # calls["altool-info"] =>
           /\ calls'["altool-info"] = calls["altool-info"] + 1
           /\ calls'["sleep"] = calls["sleep"] + 1
           /\ calls["sleep"] = calls["altool-info"]
           /\ calls["altool-submit"] = 1
           /\ uuid # <<>>
           /\ notary \in {"Submitted", "Polling"}
      /\ calls'["sleep"] # calls["sleep"] =>
           calls'["altool-info"] # calls["altool-info"] ]_vars

\* a notarization that was answered "in progress" at least twice and then
\* "success"
C29_PolledThriceThenSuccess ==
  /\ notary = "Success"
  /\ calls["altool-info"] >= 3
  /\ calls["sleep"] = calls["altool-info"]
  /\ requests = calls["altool-info"]

\* C30: once the layout is resolved the package root, the binary
\* directory, the resources directory and the resources path handed to the
\* user build keep their values through every later step.
C30_LayoutPathsFrozen ==
  [][ paths.pathPackage # <<>> =>
        /\ paths'.pathPackage = paths.pathPackage
        /\ paths'.pathBin = paths.pathBin
        /\ paths'.pathResources = paths.pathResources
        /\ paths'.pathResourcesRelativeToUserBuild
             = paths.pathResourcesRelativeToUserBuild ]_vars

\* a macOS run that went through the user build, the compile step and the
\* packaging, which assigned the archive path, and ended
C30_MacArchiveAssigned ==
  /\ platform = "mac" /\ pc = "exited" /\ exitAt = "return"
  /\ calls["userbuild"] > 0 /\ calls["compile"] > 0 /\ calls["ditto"] > 0
  /\ paths.pathToArchive # <<>>
  /\ paths.pathPackage = PathPackage(platform, settings, Target(argv), StartDir)
  /\ paths.pathBin = paths.pathPackage \o << <<"Contents">>, <<"MacOS">> >>

\* C31: the settings a manifest is rendered from already hold the keys the
\* preparation derives for the platform: on Linux linux_executable_path
\* (/opt/<name>/<executable>) and linux_icon_path (the hicolor path of
\* <executable>.png) in both the desktop entry and the control file, on
\* Windows a revision that is not empty, "1" where the file gave none.
C31_DerivedKeysBeforeRendering ==
  manifests # NoManifests =>
    /\ platform = "linux" =>
         \A m \in DOMAIN manifests :
           /\ m \in {"desktop", "control"}
           /\ "linux_executable_path" \in DOMAIN manifests[m]
           /\ "linux_icon_path" \in DOMAIN manifests[m]
           /\ manifests[m]["linux_executable_path"] =
                <<"/", "opt", "/">> \o manifests[m]["name"] \o <<"/">>
                  \o manifests[m]["executable"]
           /\ manifests[m]["linux_icon_path"] =
                <<"/", "usr", "/", "share", "/", "icons", "/", "hicolor", "/",
                  "256x256", "/", "apps", "/">>
                  \o manifests[m]["executable"] \o <<".png">>
    /\ platform = "win" =>
         /\ DOMAIN manifests = {"AppxManifest.xml"}
         /\ "revision" \in DOMAIN manifests["AppxManifest.xml"]
         /\ manifests["AppxManifest.xml"]["revision"] # <<>>
         /\ "mac_sign" \notin DOMAIN settings =>
              manifests["AppxManifest.xml"]["revision"] = <<"1">>

\* a Windows run whose settings file gave no revision (only the settings
\* file that gives mac_sign gives one) rendered its manifest and went on
C31_WindowsRevisionDefaulted ==
  /\ platform = "win" /\ pc = "userbuild"
  /\ "mac_sign" \notin DOMAIN settings
  /\ manifests # NoManifests
  /\ manifests["AppxManifest.xml"]["revision"] = <<"1">>
  /\ \E e \in fsLog : e[1] = "writeFile"

\* C32 (as claimed): the notarization submit command is invoked only with
\* the path of an archive that ditto created earlier in the same run; it is
\* never handed an empty path.
C32_SubmitsCreatedArchive ==
  calls["altool-submit"] > 0 =>
    /\ issued["altool-submit"].file # <<>>
    /\ calls["ditto"] > 0
    /\ results["ditto"] = 0
    /\ issued["altool-submit"].file = issued["ditto"].to

\* some argument after the program name and the project directory is
\* exactly the flag
ExactFlag(args, flag) == \E i \in 3..Len(args) : args[i] = flag

\* C33 (as claimed): a flag is enabled, or help shown, only when some
\* argument is exactly that flag; the program name, the project directory
\* and an argument that only contains the flag's text enable nothing.
C33_FlagsNeedExactArgument ==
  pc # "start" =>
    /\ exitAt = "help" => (Len(argv) < 2 \/ ExactFlag(argv, <<"-", "h">>))
    /\ flags.RunUserBuild => ExactFlag(argv, <<"-", "o">>)
    /\ flags.AppStore => ExactFlag(argv, <<"-", "s">>)
    /\ flags.CodeSign => ExactFlag(argv, <<"-", "c">>)
    /\ flags.ShouldRun => ExactFlag(argv, <<"-", "r">>)
    /\ flags.Entitlements => ExactFlag(argv, <<"-", "m", "e">>)
    /\ flags.ShouldNotarize => ExactFlag(argv, <<"-", "m", "n">>)
    /\ flags.ShouldPackage => ExactFlag(argv, <<"-", "p">>)
    /\ ~flags.DebugMode => ExactFlag(argv, <<"-", "x", "d">>)

\* C34 (as claimed): without "run previous build only" the directory the
\* clean step removes is the project directory joined with the output
\* setting, the directory the package layout is made under afterwards; with
\* the flag nothing is removed.
C34_CleanRemovesLayoutOutput ==
  \A e \in fsLog :
    e[1] = "remove_all" =>
      /\ ~flags.RunUserBuild
      /\ e[2] = Resolve(StartDir, Join(Target(argv), paths.pathOutput))
      /\ paths.pathPackage # <<>> =>
           IsPrefix(e[2], Resolve(StartDir, paths.pathPackage))

\* C35 (as claimed): when a step of creating the package writer fails, no
\* payload file is added, no member of the missing writer is called, and
\* the packaging does not end with "Package saved".
C35_WriterFailureStops ==
  (appx.done /\ "failing" \in DOMAIN appx /\ appx.coInit /\ appx.failing # "none") =>
    /\ appx.added = {}
    /\ ~appx.nullWriter
    /\ ~appx.closeCalled
    /\ ~appx.saved
    /\ <<"Package saved", "">> \notin log

\* C36: the verdict is a function of the phrase of the first status line
\* with a fixed precedence: a phrase that holds "in progress" is Polling
\* whatever else it holds, one that holds "invalid" and not "in progress"
\* is Rejected even if it holds "success", one that holds only "success" of
\* the three is Success, every other response is a Failure; exactly one of
\* the four is given, and only Polling keeps the loop going.
C36_ClassificationPrecedence ==
  cout # NoOutcome =>
    LET phrase == FirstStatusPhrase(cin)
        has(w) == \E i \in 1..Len(phrase) : phrase[i] = w
    IN  /\ cout.verdict =
             (IF has("in progress") THEN "Polling"
              ELSE IF has("invalid") THEN "Rejected"
              ELSE IF has("success") THEN "Success"
              ELSE "Failure")
        /\ cout.continues = (cout.verdict = "Polling")
        /\ cout.exits = (cout.verdict = "Rejected")

\* a status line that reads "invalid" and "in progress" was taken as Polling
C36_InvalidInProgressPolls ==
  /\ cin = <<NL, "Status: ", "invalid", "in progress", NL>>
  /\ cout.verdict = "Polling"
  /\ cout.continues

\* C37: one run has one debug mode, off exactly when -xd was given: in
\* debug mode name, title and executable carry "-dev", the user build is
\* handed --debug=1 and the compiler -DDEBUG=1 with the debug_flags
\* setting; otherwise none carries the suffix and --debug=0, -DDEBUG=0 and
\* the flags setting are used.
C37_DebugModeConsistent ==
  LET dbg == ~(\E i \in 1..Len(argv) : argv[i] = <<"-", "x", "d">>)
      sfx == IF dbg THEN <<"-dev">> ELSE <<>>
      num == IF dbg THEN 1 ELSE 0
  IN  /\ (pc \notin {"start", "validate", "debug"} /\ exitAt \notin ValidationExits) =>
           /\ flags.DebugMode = dbg
           /\ \A k \in {"name", "title", "executable"} :
                settings[k] = ValueOf[k] \o sfx
      /\ calls["userbuild"] > 0 => issued["userbuild"].debug = num
      /\ calls["compile"] > 0 =>
           /\ issued["compile"].debug = num
           /\ issued["compile"].extraFlags =
                Get(settings, IF dbg THEN "debug_flags" ELSE "flags")
           /\ (IF dbg THEN "debug_flags" ELSE "flags") \in DOMAIN settings

\* a release run (-xd) whose settings give both flag variants compiled
\* with the flags setting, and a name without suffix
C37_ReleaseRunCompiled ==
  /\ ~flags.DebugMode
  /\ calls["userbuild"] > 0 /\ issued["userbuild"].debug = 0
  /\ calls["compile"] > 0 /\ issued["compile"].debug = 0
  /\ issued["compile"].extraFlags = <<"-O2">>
  /\ Get(settings, "debug_flags") = <<"-g">>
  /\ settings["executable"] = <<"foo">>

\* the requests whose promise is not settled yet
IpcPending(i) == { k \in DOMAIN i.promise : i.promise[k] = "pending" }

\* C38: every send gets a sequence number no earlier send got; a reply
\* changes at most the promise made under its own sequence number, and no
\* promise changes its state twice; a reply whose sequence number is
\* unknown or whose request is settled already settles nothing and leaves
\* every pending request as it is; the deletion that ends a reply removes
\* only a request that is settled.
C38_RepliesSettleOwnRequestOnce ==
  [][ LET r == ipc'.last
      IN  /\ r.op = "send" =>
               /\ r.key \notin DOMAIN ipc.promise
               /\ \A j \in 1..Len(ipc.issuedSeqs) : IpcKey(ipc.issuedSeqs[j]) # r.key
               /\ IpcPending(ipc') = IpcPending(ipc) \cup {r.key}
               /\ \A k \in DOMAIN ipc.promise : ipc'.promise[k] = ipc.promise[k]
          /\ r.op = "reply" =>
               /\ \A k \in DOMAIN ipc.promise :
                    k # r.key => ipc'.promise[k] = ipc.promise[k]
               /\ DOMAIN ipc'.promise = DOMAIN ipc.promise
               /\ ipc'.obj = ipc.obj
               /\ (r.key \notin IpcPending(ipc)) =>
                    /\ ipc'.promise = ipc.promise
                    /\ IpcPending(ipc') = IpcPending(ipc)
          /\ r.op = "resume" =>
               /\ ipc'.promise = ipc.promise
               /\ ipc.obj \ ipc'.obj \subseteq {r.key}
               /\ r.key \notin IpcPending(ipc)
          /\ \A k \in DOMAIN ipc'.settles : ipc'.settles[k] <= 1 ]_vars

\* two requests were sent; the first was answered twice before the first
\* answer's deletion ran, a reply named a property the bridge inherits
\* from Object.prototype, and the second request is still pending
C38_DoubleReplyInTheGap ==
  /\ ipc.issuedSeqs = <<1, 2>>
  /\ ipc.promise["1"] = "fulfilled" /\ ipc.settles["1"] = 1
  /\ ipc.promise["2"] = "pending"
  /\ Len(ipc.awaiting) = 2 /\ ipc.awaiting[1] = "1" /\ ipc.awaiting[2] = "1"
  /\ ipc.last = [ op |-> "reply", key |-> "constructor", outcome |-> "threw" ]

====
